---- MODULE Spec2Model ----
(***************************************************************************)
(* Model of the Jarvis voice-room bot: the mute reconciler, the room       *)
(* lifecycle (creation, owner leave, transfer, deletion), the naming       *)
(* deadline watchdog and the activity detector.                            *)
(*                                                                         *)
(* Every handler invocation is an asynchronous task.  A task step is one   *)
(* awaited store or gateway operation taking effect, followed by the       *)
(* synchronous code that runs when the task resumes, up to the next await. *)
(* Steps of different tasks interleave freely.  A single guild is          *)
(* modelled.  Time advances in seconds.                                    *)
(***************************************************************************)
EXTENDS Integers, Sequences, FiniteSets, Bags, TLC

None == "none"
\* an absent timestamp, age or remaining time (those are never negative)
NoTime == -1

\* ---- universe -----------------------------------------------------------
Humans == {"u1", "u2", "u3"}
Bots == {"b1"}
Members == Humans \cup Bots
Rooms == {"r1", "r2"}
\* channel names and tags the users choose from
Names == {"a", "b"}
Tags == {"t"}
PlainChannel == "x"
JtcChannel == "jtc"

\* ---- program constants --------------------------------------------------
UNMUTE_DELAY_SECONDS == 3
PENDING_UNMUTE_VALID_SECONDS == 5
VC_NAMING_DEADLINE_SECONDS == 60
CHECK_INTERVAL_SECONDS == 10
PROMPT_RECENT_SECONDS == 300
MAX_TIMEOUT_LEVEL == 7

\* ---- bounds -------------------------------------------------------------
\* tasks in progress beyond which the users cause no further event
MaxTasks == 2
\* rows of mute_history with unmuted_at IS NULL
MaxMutes == 2
\* events held in one activity queue
MaxEvents == 2
\* seconds an awaited store or gateway operation may take
MaxOpSeconds == 0

VARIABLES
    chan,        \* platform: member -> voice channel or None (live membership, as the gateway cache shows it)
    pmute,       \* platform: member -> server-mute flag
    pexists,     \* platform: room id -> "free" (id not yet allocated), "live", "gone" (deleted; ids are never reused)
    perms,       \* platform: room id -> member -> the permissions the member's overwrite allows
    vcOwner,     \* store active_voice_channels: room id -> owner_id, None when there is no row
    vcTopic,     \* store active_voice_channels: room id -> topic, None when unset
    vcTags,      \* store active_voice_channels: room id -> tags
    mutes,       \* store mute_history: bag of the rows with unmuted_at IS NULL
    gmute,       \* store global_mutes: member -> a row with unmuted_at IS NULL exists
    deadline,    \* store pending_vc_deadlines: room id -> seconds until deadline_at (0: passed), NoTime when there is no row
    prefs,       \* store user_vc_preferences: member -> preferred_name and preferred_tags, NoPref when there is no row
    spamLevel,   \* store spam_user_status.current_timeout_level
    cacheOwner,  \* Data.channel_owners
    marker,      \* Data.pending_bot_unmutes: member -> age in seconds of the marker, NoTime when absent
    activity,    \* ActivityTracker.activity: room -> user -> ages in seconds of the recorded events, oldest first
    prompted,    \* ActivityTracker.prompted: room -> user -> age in seconds of the prompt mark, NoTime when absent
    cfg,         \* Settings (spam thresholds and window) and the guild's configuration row
    tasks,       \* handler invocations and spawned tasks in progress
    sweep,       \* the deadline checker task
    worker,      \* the queue processor task and the requests waiting in its channel
    calc,        \* two calls of get_timeout_duration: the levels passed and the seconds returned
    budget,      \* events the users may still cause, NoTime when that is not limited
    gw,          \* the gateway call made by the latest step
    hist         \* history: what has happened so far, as far as the users and the properties look back

vars == <<chan, pmute, pexists, perms, vcOwner, vcTopic, vcTags, mutes, gmute, deadline, prefs, spamLevel,
          cacheOwner, marker, activity, prompted, cfg, tasks, sweep, worker, calc, budget, gw, hist>>

platformVars == <<chan, pmute, pexists>>
roomStore == <<vcOwner, vcTopic, vcTags>>
muteStore == <<mutes, gmute>>
miscStore == <<deadline, prefs, spamLevel>>
storeVars == <<roomStore, muteStore, miscStore>>
spamVars == <<activity, prompted>>

Inc(a, cap) == IF a = NoTime THEN NoTime ELSE IF a + 1 > cap THEN cap ELSE a + 1
Dec(a) == IF a = NoTime THEN NoTime ELSE IF a - 1 < 0 THEN 0 ELSE a - 1

\* named: the rooms whose naming completed before their deadline;
\* modal: the <<user, room>> pairs the naming modal has been shown to;
\* selector: the rooms the tag selector has been sent to;
\* timeout: member -> seconds since the member's latest spam timeout;
\* flows: how often the queue processor has called start_jtc_flow;
\* slept: the queue processor has slept since its latest call of start_jtc_flow;
\* dropped: the users whose queued request the processor skipped;
\* errors: the users whose creation ended with JtcNotConfigured;
\* lifted: the users who were unmuted by hand or by /unmute while a delayed
\* unmute for them was still asleep;
\* stale: the users whose SpamRecord has a level above 0 and a
\* last_infraction_at of 30 days ago or more (should_reset() is true)
NoHist == [named |-> {}, modal |-> {}, selector |-> {}, timeout |-> [m \in Members |-> NoTime],
           flows |-> 0, slept |-> FALSE, dropped |-> {}, errors |-> {}, lifted |-> {}, stale |-> {}]

\* user_vc_preference::get returns None; every row has a name
NoPref == [name |-> None, tags |-> {}]

\* the overwrites of rooms that create_channel made and nobody has handed
\* over: the owner's, which allows MUTE_MEMBERS
CreatedPerms(own) == [r \in Rooms |-> [m \in Members |-> IF own[r] = m THEN {"MUTE_MEMBERS"} ELSE {}]]

\* the queue processor awaits recv on an empty channel
IdleWorker == [pc |-> "recv", queue |-> <<>>, timer |-> 0]

\* get_timeout_duration has not been called
NoCalc == [a |-> 0, b |-> 0, ra |-> NoTime, rb |-> NoTime]

NoCall == [op |-> None, u |-> None, c |-> None, by |-> None]
Call(op, u, c, by) == [op |-> op, u |-> u, c |-> c, by |-> by]

\* ---- store queries ------------------------------------------------------
MuteRow(c, u, by, admin) ==
    [channel_id |-> c, muted_user_id |-> u, muted_by_user_id |-> by, is_admin_mute |-> admin]

ActiveRows(c, u) == {m \in BagToSet(mutes) : m.channel_id = c /\ m.muted_user_id = u}

RECURSIVE CopiesSum(_, _)
CopiesSum(b, S) ==
    IF S = {} THEN 0
    ELSE LET m == CHOOSE x \in S : TRUE
         IN CopiesIn(m, b) + CopiesSum(b, S \ {m})

\* number of rows of (channel, user) with unmuted_at IS NULL
ActiveCount(c, u) == CopiesSum(mutes, ActiveRows(c, u))

\* mute::get_active_mute(...).is_some()
HasActiveMute(c, u) == ActiveRows(c, u) # {}

\* is_admin_mute of the row get_active_mute returns (ORDER BY muted_at DESC LIMIT 1)
ActiveMuteIsAdmin(c, u) == \E m \in ActiveRows(c, u) : m.is_admin_mute

\* mute::create: a plain INSERT
MuteCreate(b, c, u, by, admin) == b (+) SetToBag({MuteRow(c, u, by, admin)})

\* a plausible slip: the rows are selected by the user alone
UnmuteByUser(b, c, u) ==
    LET keep == {m \in BagToSet(b) : m.muted_user_id # u}
    IN [m \in keep |-> b[m]]

\* mute::unmute_by_channel_user: closes every active row of (channel, user)
UnmuteByChannelUser(b, c, u) ==
    LET keep == {m \in BagToSet(b) : ~(m.channel_id = c /\ m.muted_user_id = u)}
    IN [m \in keep |-> b[m]]

\* global_mute::is_globally_muted
IsGloballyMuted(u) == gmute[u]

\* voice_channel::get(...).is_some()
IsManaged(c) == c \in Rooms /\ vcOwner[c] # None

\* guild_config::find_by_jtc_channel(...).is_some()
IsJtcChannel(c) == c = JtcChannel /\ cfg.configured

\* ---- gateway cache reads ------------------------------------------------
\* channel_deleter::get_channel_member_count
MemberCount(c) == Cardinality({m \in Members : chan[m] = c})

\* channel_deleter::get_next_owner: a non-bot member of the channel; the
\* iteration order of the voice-state map is unspecified, so any of them
NextOwnerCandidates(c) == {m \in Members : chan[m] = c /\ m \notin Bots}

\* a plausible slip: the age of the marker is not looked at
MarkerPresent(u) == marker[u] # NoTime

\* Data::consume_pending_unmute: true iff a marker younger than 5 seconds was present
MarkerValid(u) == marker[u] # NoTime /\ marker[u] < PENDING_UNMUTE_VALID_SECONDS

\* ---- services/spam/detector.rs: ActivityTracker -------------------------
RECURSIVE PruneFront(_, _)
\* record_event: pop the front while it is older than the window
PruneFront(q, window) ==
    IF q # <<>> /\ Head(q) > window THEN PruneFront(Tail(q), window) ELSE q

\* a plausible slip: the queue is cleared before the new event is pushed
RecordEventCleared(act, c, u, window) ==
    [act EXCEPT ![c][u] = <<0>>]

\* record_event (record_join, record_leave): prune, then push the new event
RecordEvent(act, c, u, window) ==
    [act EXCEPT ![c][u] = Append(PruneFront(act[c][u], window), 0)]

\* get_activity_count: the events not older than the window
GetActivityCount(act, c, u, window) ==
    Cardinality({i \in 1..Len(act[c][u]) : act[c][u][i] <= window})

\* was_recently_prompted: a mark younger than 300 seconds
WasRecentlyPrompted(c, u) == prompted[c][u] # NoTime /\ prompted[c][u] < PROMPT_RECENT_SECONDS

\* the users check_spam iterates over: the keys of the channel's activity map
TrackedUsers(act, c) == {m \in Members : act[c][m] # <<>>}

CanRecord(c, u) == Len(PruneFront(activity[c][u], cfg.window)) < MaxEvents

\* check_spam's loop body for one user: which await it runs into, if any
NeedsTimeout(act, c, v) == GetActivityCount(act, c, v, cfg.window) >= cfg.timeout_threshold
NeedsPrompt(act, c, v) ==
    /\ ~NeedsTimeout(act, c, v)
    /\ GetActivityCount(act, c, v, cfg.window) >= cfg.prompt_threshold
    /\ ~WasRecentlyPrompted(c, v)

\* ---- tasks ---------------------------------------------------------------
\* k: kind, u: the user the task is about, o: old channel / channel left,
\* c: new channel / channel acted on, pc: the awaited operation that comes
\* next, x: a local (owner snapshot, chosen new owner, current channel, new
\* room), t: sleep seconds left, lag: seconds the awaited operation has
\* taken so far, s: the tracked users check_spam has still to visit, or the
\* tags of a creation or a tag selection
Task(k, u, o, c, pc, x, t) ==
    [k |-> k, u |-> u, o |-> o, c |-> c, pc |-> pc, x |-> x, t |-> t, lag |-> 0, s |-> {}]

At(pc) == {t \in tasks : t.pc = pc /\ t.t = 0}

Goto(t, pc) == [t EXCEPT !.pc = pc, !.lag = 0]
GotoX(t, pc, x) == [t EXCEPT !.pc = pc, !.x = x, !.lag = 0]

Replace(t, S) == (tasks \ {t}) \cup S
Fits(S) == Cardinality(S) <= MaxTasks

\* a plausible slip: the mute flags are compared whether or not the channel changed
VsTaskFlagsFirst(u, o, c, wm, im) ==
    IF c # None /\ ~wm /\ im THEN {Task("vs", u, o, c, "md_get", None, 0)}
    ELSE IF c # None /\ wm /\ ~im THEN {Task("vs", u, o, c, "ud_consume", None, 0)}
    ELSE IF c # None /\ o # c THEN {Task("vs", u, o, c, IF IsJtcChannel(c) THEN "jtc_pref" ELSE "join_get", None, 0)}
    ELSE IF o # None /\ o # c THEN {Task("vs", u, o, c, "leave_get", None, 0)}
    ELSE {}

\* handle_voice_state_update up to its first await, for an event whose old
\* state has channel o and mute flag wm and whose new state has channel c
\* and mute flag im: the mute transitions are looked at only when the
\* channel is unchanged; a changed channel is a join of c, then a leave of o
VsTask(u, o, c, wm, im) ==
    IF c # None /\ o = c
    THEN IF ~wm /\ im THEN {Task("vs", u, o, c, "md_get", None, 0)}
         ELSE IF wm /\ ~im THEN {Task("vs", u, o, c, "ud_consume", None, 0)}
         ELSE {}
    ELSE IF c # None THEN {Task("vs", u, o, c, IF IsJtcChannel(c) THEN "jtc_pref" ELSE "join_get", None, 0)}
    ELSE IF o # None THEN {Task("vs", u, o, c, "leave_get", None, 0)}
    ELSE {}

\* the platform reports a changed server-mute flag of a member who is in a
\* voice channel as a voice-state update with an unchanged channel
MuteEvents(u, flag) ==
    IF chan[u] # None /\ pmute[u] # flag
    THEN VsTask(u, chan[u], chan[u], pmute[u], flag)
    ELSE {}

\* where the handler goes once handle_channel_join has returned Ok: to
\* handle_channel_leave when the user came from another channel
AfterJoin(t) == IF t.o # None /\ t.o # t.c THEN {Goto(t, "leave_get")} ELSE {}

\* ---- the platform and its users -----------------------------------------
\* no more Join-to-Create flows are started than there are unused room ids
FreeRooms == {r \in Rooms : pexists[r] = "free"}
JtcStarting == {t \in tasks : t.pc \in {"jtc_pref", "cc_platform"}}

\* a member connects to, moves to or disconnects from a voice channel; the
\* gateway cache is updated and the voice-state event is dispatched.  The
\* event of a member who connects has no old state, for which the handler
\* takes the old mute flag to be false
UserMove(u, c) ==
    /\ chan[u] # c
    /\ c \in Rooms => pexists[c] = "live"
    /\ c = JtcChannel => Cardinality(JtcStarting) < Cardinality(FreeRooms)
    /\ chan' = [chan EXCEPT ![u] = c]
    /\ tasks' = tasks \cup VsTask(u, chan[u], c, IF chan[u] = None THEN FALSE ELSE pmute[u], pmute[u])
    /\ Fits(tasks')
    /\ budget # 0
    /\ budget' = Dec(budget)
    /\ gw' = NoCall
    /\ UNCHANGED <<pmute, pexists, storeVars, cacheOwner, marker, spamVars, cfg, worker, perms, calc, hist, sweep>>

\* somebody with the permission (a room owner, a moderator) server-mutes or
\* unmutes a connected member by hand
ManualMute(u, flag) ==
    /\ chan[u] # None
    /\ pmute[u] # flag
    /\ pmute' = [pmute EXCEPT ![u] = flag]
    /\ tasks' = tasks \cup MuteEvents(u, flag)
    /\ Fits(tasks')
    /\ budget # 0
    /\ budget' = Dec(budget)
    /\ hist' = IF ~flag /\ \E t \in tasks : t.k = "du" /\ t.u = u /\ t.t > 0
               THEN [hist EXCEPT !.lifted = @ \cup {u}] ELSE hist
    /\ gw' = NoCall
    /\ UNCHANGED <<chan, pexists, storeVars, cacheOwner, marker, spamVars, cfg, worker, perms, calc, sweep>>

\* ---- commands/owner -----------------------------------------------------
\* find_owned_channel: a cache entry whose value is the author, else the
\* store row of that owner, which is then put into the cache
OwnedChannels(author) ==
    IF \E r \in Rooms : cacheOwner[r] = author
    THEN {r \in Rooms : cacheOwner[r] = author}
    ELSE {r \in Rooms : vcOwner[r] = author}

\* is_user_in_channel
IsUserInChannel(c, u) == chan[u] = c

\* /mute and /unmute up to the call of mute_user or unmute_user: the
\* author's channel is looked up and the target must be in it
OwnerCommand(k, pc, author, u) ==
    \E r \in OwnedChannels(author) :
        /\ IsUserInChannel(r, u)
        /\ cacheOwner' = [cacheOwner EXCEPT ![r] = author]
        /\ tasks' = tasks \cup {Task(k, u, None, r, pc, author, 0)}
        /\ Fits(tasks')
        /\ budget # 0
        /\ budget' = Dec(budget)
        /\ gw' = NoCall
        /\ UNCHANGED <<platformVars, storeVars, marker, spamVars, cfg, worker, perms, calc, hist, sweep>>

MuteCommand(author, u) == OwnerCommand("mu", "mu_mute", author, u)
UnmuteCommand(author, u) == OwnerCommand("uu", "uu_close", author, u)

\* /transfer up to its first write: find_owned_channel, the target is
\* neither the author nor a bot
TransferCommand(author, u) ==
    \E r \in OwnedChannels(author) :
        /\ u # author
        /\ u \notin Bots
        /\ cacheOwner' = [cacheOwner EXCEPT ![r] = author]
        /\ tasks' = tasks \cup {Task("tr", u, None, r, "tr_store", author, 0)}
        /\ Fits(tasks')
        /\ budget # 0
        /\ budget' = Dec(budget)
        /\ gw' = NoCall
        /\ UNCHANGED <<platformVars, storeVars, marker, spamVars, cfg, worker, perms, calc, hist, sweep>>

\* voice_channel::update_owner: an UPDATE, which changes nothing when the row is gone
UpdateOwner(c, u) == IF vcOwner[c] # None THEN [vcOwner EXCEPT ![c] = u] ELSE vcOwner

\* delete_permission of the old owner and create_permission of the new
\* one; both fail, and that is ignored or logged, when the channel is gone
HandOver(r, old, new, allow) ==
    IF pexists[r] = "live"
    THEN [perms EXCEPT ![r] = [m \in Members |-> IF m = new THEN allow ELSE IF m = old THEN {} ELSE @[m]]]
    ELSE perms

\* /transfer: update_owner, then set_channel_owner, then the author's
\* overwrite is deleted and the new owner's is created, which allows
\* MANAGE_CHANNELS | MUTE_MEMBERS | MOVE_MEMBERS
TrStore ==
    \E t \in At("tr_store") :
        /\ vcOwner' = UpdateOwner(t.c, t.u)
        /\ cacheOwner' = [cacheOwner EXCEPT ![t.c] = t.u]
        /\ perms' = HandOver(t.c, t.x, t.u, {"MANAGE_CHANNELS", "MUTE_MEMBERS", "MOVE_MEMBERS"})
        /\ tasks' = Replace(t, {})
        /\ gw' = Call("permissions", t.u, t.c, "transfer")
        /\ UNCHANGED <<platformVars, vcTopic, vcTags, muteStore, miscStore, marker, spamVars, cfg, worker, calc, hist, budget, sweep>>

\* the transfer select menu up to its first await (handle_selection): the
\* cache names the user as the owner, the selected user is neither the
\* owner nor a bot
MenuTransfer(author, u) ==
    \E r \in Rooms :
        /\ cacheOwner[r] = author
        /\ u # author
        /\ u \notin Bots
        /\ tasks' = tasks \cup {Task("mt", u, None, r, "mt_store", author, 0)}
        /\ Fits(tasks')
        /\ budget # 0
        /\ budget' = Dec(budget)
        /\ gw' = NoCall
        /\ UNCHANGED <<platformVars, perms, storeVars, cacheOwner, marker, spamVars, cfg, worker, calc, hist, sweep>>

\* handle_transfer: update_owner, then set_channel_owner and
\* update_channel_permissions, whose overwrite for the new owner allows MUTE_MEMBERS
MtStore ==
    \E t \in At("mt_store") :
        /\ vcOwner' = UpdateOwner(t.c, t.u)
        /\ cacheOwner' = [cacheOwner EXCEPT ![t.c] = t.u]
        /\ perms' = HandOver(t.c, t.x, t.u, {"MUTE_MEMBERS"})
        /\ tasks' = Replace(t, {})
        /\ gw' = Call("permissions", t.u, t.c, "handle_transfer")
        /\ UNCHANGED <<platformVars, vcTopic, vcTags, muteStore, miscStore, marker, spamVars, cfg, worker, calc, hist, budget, sweep>>

\* ---- services/moderation/mute_service.rs --------------------------------
\* apply_server_mute: the flag is set and, for a connected member whose flag
\* changed, the platform dispatches the voice-state event
ApplyServerMute(t, flag, next, by) ==
    /\ pmute' = [pmute EXCEPT ![t.u] = flag]
    /\ tasks' = Replace(t, next \cup MuteEvents(t.u, flag))
    /\ gw' = Call(IF flag THEN "mute" ELSE "unmute", t.u, t.c, by)

\* mute_user, first await: apply_server_mute(true)
MuUserMute ==
    \E t \in At("mu_mute") :
        /\ ApplyServerMute(t, TRUE, {Goto(t, "mu_create")}, "mute_user")
        /\ UNCHANGED <<chan, pexists, storeVars, cacheOwner, marker, spamVars, cfg, worker, perms, calc, hist, budget, sweep>>

\* mute_user, second await: mute::create
MuUserCreate ==
    \E t \in At("mu_create") :
        /\ BagCardinality(mutes) < MaxMutes
        /\ mutes' = MuteCreate(mutes, t.c, t.u, t.x, FALSE)
        /\ tasks' = Replace(t, {})
        /\ gw' = NoCall
        /\ UNCHANGED <<platformVars, roomStore, gmute, miscStore, cacheOwner, marker, spamVars, cfg, worker, perms, calc, hist, budget, sweep>>

\* unmute_user, first await: mute::unmute_by_channel_user; had_mute decides
UuUserClose ==
    \E t \in At("uu_close") :
        /\ mutes' = UnmuteByChannelUser(mutes, t.c, t.u)
        /\ tasks' = Replace(t, IF HasActiveMute(t.c, t.u) THEN {Goto(t, "uu_unmute")} ELSE {})
        /\ gw' = NoCall
        /\ UNCHANGED <<platformVars, roomStore, gmute, miscStore, cacheOwner, marker, spamVars, cfg, worker, perms, calc, hist, budget, sweep>>

\* unmute_user, second await: apply_server_mute(false)
UuUserUnmute ==
    \E t \in At("uu_unmute") :
        /\ ApplyServerMute(t, FALSE, {}, "unmute_user")
        /\ hist' = IF \E d \in tasks : d.k = "du" /\ d.u = t.u /\ d.t > 0
                   THEN [hist EXCEPT !.lifted = @ \cup {t.u}] ELSE hist
        /\ UNCHANGED <<chan, pexists, storeVars, cacheOwner, marker, spamVars, cfg, worker, perms, calc, budget, sweep>>

\* ---- handlers/voice_state.rs: mute and unmute events --------------------
\* handle_mute_detected: voice_channel::get
MdGet ==
    \E t \in At("md_get") :
        /\ tasks' = Replace(t, {IF IsManaged(t.c) THEN GotoX(t, "md_active", vcOwner[t.c])
                                ELSE Goto(t, "md_global")})
        /\ gw' = NoCall
        /\ UNCHANGED <<platformVars, storeVars, cacheOwner, marker, spamVars, cfg, worker, perms, calc, hist, budget, sweep>>

\* handle_mute_detected: get_active_mute, "already tracked" returns
MdActive ==
    \E t \in At("md_active") :
        /\ tasks' = Replace(t, IF HasActiveMute(t.c, t.u) THEN {} ELSE {Goto(t, "md_create")})
        /\ gw' = NoCall
        /\ UNCHANGED <<platformVars, storeVars, cacheOwner, marker, spamVars, cfg, worker, perms, calc, hist, budget, sweep>>

\* a plausible slip: the record is written as an admin mute
MdCreateAdmin ==
    \E t \in At("md_create") :
        /\ BagCardinality(mutes) < MaxMutes
        /\ mutes' = MuteCreate(mutes, t.c, t.u, t.x, TRUE)
        /\ tasks' = Replace(t, {})
        /\ gw' = NoCall
        /\ UNCHANGED <<platformVars, roomStore, gmute, miscStore, cacheOwner, marker, spamVars, cfg, worker, perms, calc, hist, budget, sweep>>

\* handle_mute_detected: mute::create with the owner read by voice_channel::get
MdCreate ==
    \E t \in At("md_create") :
        /\ BagCardinality(mutes) < MaxMutes
        /\ mutes' = MuteCreate(mutes, t.c, t.u, t.x, FALSE)
        /\ tasks' = Replace(t, {})
        /\ gw' = NoCall
        /\ UNCHANGED <<platformVars, roomStore, gmute, miscStore, cacheOwner, marker, spamVars, cfg, worker, perms, calc, hist, budget, sweep>>

\* handle_mute_detected: global_mute::record_global_mute
MdGlobal ==
    \E t \in At("md_global") :
        /\ gmute' = [gmute EXCEPT ![t.u] = TRUE]
        /\ tasks' = Replace(t, {})
        /\ gw' = NoCall
        /\ UNCHANGED <<platformVars, roomStore, mutes, miscStore, cacheOwner, marker, spamVars, cfg, worker, perms, calc, hist, budget, sweep>>

\* handle_unmute_detected: consume_pending_unmute removes the marker and a
\* valid one ends the handler
UdConsume ==
    \E t \in At("ud_consume") :
        /\ marker' = [marker EXCEPT ![t.u] = NoTime]
        /\ tasks' = Replace(t, IF MarkerValid(t.u) THEN {} ELSE {Goto(t, "ud_unmute")})
        /\ gw' = NoCall
        /\ UNCHANGED <<platformVars, storeVars, cacheOwner, spamVars, cfg, worker, perms, calc, hist, budget, sweep>>

\* handle_unmute_detected: mute::unmute_by_channel_user for the current channel
UdUnmute ==
    \E t \in At("ud_unmute") :
        /\ mutes' = UnmuteByChannelUser(mutes, t.c, t.u)
        /\ tasks' = Replace(t, {Goto(t, "ud_global")})
        /\ gw' = NoCall
        /\ UNCHANGED <<platformVars, roomStore, gmute, miscStore, cacheOwner, marker, spamVars, cfg, worker, perms, calc, hist, budget, sweep>>

\* handle_unmute_detected: global_mute::record_global_unmute
UdGlobal ==
    \E t \in At("ud_global") :
        /\ gmute' = [gmute EXCEPT ![t.u] = FALSE]
        /\ tasks' = Replace(t, {})
        /\ gw' = NoCall
        /\ UNCHANGED <<platformVars, roomStore, mutes, miscStore, cacheOwner, marker, spamVars, cfg, worker, perms, calc, hist, budget, sweep>>

\* ---- handle_channel_join ------------------------------------------------
\* check_spam, from its entry or from the completion of one of its awaits to
\* its next await or its return: the next tasks the join handler can be.
\* The map is iterated in an unspecified order: any user still to visit who
\* needs an action may be the next one; the handler goes on to
\* get_active_mute when no user needs one.
SpamScan(act, t, S) ==
    LET stops == {v \in S : NeedsTimeout(act, t.c, v) \/ NeedsPrompt(act, t.c, v)}
    IN IF stops = {}
       THEN {[t EXCEPT !.pc = "join_active", !.s = {}, !.x = None, !.lag = 0]}
       ELSE {[t EXCEPT !.pc = IF NeedsTimeout(act, t.c, v) THEN "sp_increment" ELSE "sp_prompt",
                       !.s = S \ {v}, !.x = v, !.lag = 0] : v \in stops}

\* voice_channel::get; for a managed channel record_join, then check_spam up to its first await
JoinGet ==
    \E t \in At("join_get") :
        /\ IF IsManaged(t.c)
           THEN /\ CanRecord(t.c, t.u)
                /\ activity' = RecordEvent(activity, t.c, t.u, cfg.window)
                /\ \E n \in SpamScan(activity', t, TrackedUsers(activity', t.c)) : tasks' = Replace(t, {n})
           ELSE /\ activity' = activity
                /\ tasks' = Replace(t, AfterJoin(t))
        /\ gw' = NoCall
        /\ UNCHANGED <<platformVars, storeVars, cacheOwner, marker, prompted, cfg, worker, perms, calc, hist, budget, sweep>>

\* handle_spam_timeout: spam::increment_infraction, LEAST(level + 1, 7) and
\* last_infraction_at = NOW(); should_reset and reset_timeout_level are not called
SpIncrement ==
    \E t \in At("sp_increment") :
        /\ spamLevel' = [spamLevel EXCEPT ![t.x] = IF @ + 1 > MAX_TIMEOUT_LEVEL THEN MAX_TIMEOUT_LEVEL ELSE @ + 1]
        /\ tasks' = Replace(t, {Goto(t, "sp_timeout")})
        /\ hist' = [hist EXCEPT !.stale = @ \ {t.x}]
        /\ gw' = NoCall
        /\ UNCHANGED <<platformVars, roomStore, muteStore, deadline, prefs, cacheOwner, marker, spamVars, cfg, worker, perms, calc, budget, sweep>>

\* handle_spam_timeout: the platform timeout, a failure is logged and swallowed; check_spam goes on
SpTimeout ==
    \E t \in At("sp_timeout") :
        /\ \E n \in SpamScan(activity, t, t.s) : tasks' = Replace(t, {n})
        /\ gw' = Call("timeout", t.x, t.c, "check_spam")
        /\ hist' = [hist EXCEPT !.timeout[t.x] = 0]
        /\ UNCHANGED <<platformVars, storeVars, cacheOwner, marker, spamVars, cfg, worker, perms, calc, budget, sweep>>

\* spam_prompt::send_prompt succeeds: mark_prompted, check_spam goes on
SpPromptOk ==
    \E t \in At("sp_prompt") :
        /\ prompted' = [prompted EXCEPT ![t.c][t.x] = 0]
        /\ \E n \in SpamScan(activity, t, t.s) : tasks' = Replace(t, {n})
        /\ gw' = Call("prompt", t.x, t.c, "check_spam")
        /\ UNCHANGED <<platformVars, storeVars, cacheOwner, marker, activity, cfg, worker, perms, calc, hist, budget, sweep>>

\* spam_prompt::send_prompt fails: the error is returned through check_spam and
\* handle_channel_join to handle_voice_state_update, which returns it
SpPromptErr ==
    \E t \in At("sp_prompt") :
        /\ tasks' = Replace(t, {})
        /\ gw' = Call("prompt_failed", t.x, t.c, "check_spam")
        /\ UNCHANGED <<platformVars, storeVars, cacheOwner, marker, spamVars, cfg, worker, perms, calc, hist, budget, sweep>>

\* mute::get_active_mute for the joined channel
JoinActive ==
    \E t \in At("join_active") :
        /\ tasks' = Replace(t, IF HasActiveMute(t.c, t.u) THEN {Goto(t, "join_remute")} ELSE AfterJoin(t))
        /\ gw' = NoCall
        /\ UNCHANGED <<platformVars, storeVars, cacheOwner, marker, spamVars, cfg, worker, perms, calc, hist, budget, sweep>>

\* apply_server_mute(true): the mute is re-applied
JoinRemute ==
    \E t \in At("join_remute") :
        /\ ApplyServerMute(t, TRUE, AfterJoin(t), "handle_channel_join")
        /\ UNCHANGED <<chan, pexists, storeVars, cacheOwner, marker, spamVars, cfg, worker, perms, calc, hist, budget, sweep>>

\* ---- handle_channel_leave -----------------------------------------------
\* handle_owner_leave up to its first await: delete below two members, else
\* transfer to a next owner, else delete
OwnerLeaveNext(t) ==
    IF MemberCount(t.o) < 2 \/ NextOwnerCandidates(t.o) = {}
    THEN {Goto(t, "del_store")}
    ELSE {GotoX(t, "xfer_store", n) : n \in NextOwnerCandidates(t.o)}

\* voice_channel::get for the channel left; record_leave; the owner branch
\* runs handle_owner_leave, the other branch goes on to get_active_mute
LeaveGet ==
    \E t \in At("leave_get") :
        /\ IF IsManaged(t.o)
           THEN /\ CanRecord(t.o, t.u)
                /\ activity' = RecordEvent(activity, t.o, t.u, cfg.window)
                /\ IF t.u = vcOwner[t.o]
                   THEN \E n \in OwnerLeaveNext(t) : tasks' = Replace(t, {n})
                   ELSE tasks' = Replace(t, {Goto(t, "leave_active")})
           ELSE /\ activity' = activity
                /\ tasks' = Replace(t, {})
        /\ gw' = NoCall
        /\ UNCHANGED <<platformVars, storeVars, cacheOwner, marker, prompted, cfg, worker, perms, calc, hist, budget, sweep>>

\* the task spawned for the delayed unmute, asleep for UNMUTE_DELAY_SECONDS
DelayedUnmuteTask(u, o) == Task("du", u, o, o, "du_global", None, UNMUTE_DELAY_SECONDS)

\* whether handle_channel_leave spawns the delayed unmute: an active mute
\* of the channel left that is not an admin mute
SpawnsDelayedUnmute(o, u) == HasActiveMute(o, u) /\ ~ActiveMuteIsAdmin(o, u)

\* non-owner: get_active_mute for the channel left
LeaveActive ==
    \E t \in At("leave_active") :
        /\ tasks' = Replace(t, IF SpawnsDelayedUnmute(t.o, t.u) THEN {DelayedUnmuteTask(t.u, t.o)} ELSE {})
        /\ gw' = NoCall
        /\ UNCHANGED <<platformVars, storeVars, cacheOwner, marker, spamVars, cfg, worker, perms, calc, hist, budget, sweep>>

\* ---- the delayed-unmute task --------------------------------------------
\* after the sleep: is_globally_muted; when not, the current channel is read
\* from the gateway cache; without one the marker is set and the unmute issued
DuGlobal ==
    \E t \in At("du_global") :
        /\ IF IsGloballyMuted(t.u)
           THEN /\ tasks' = Replace(t, {})
                /\ marker' = marker
           ELSE IF chan[t.u] # None
           THEN /\ tasks' = Replace(t, {GotoX(t, "du_active", chan[t.u])})
                /\ marker' = marker
           ELSE /\ tasks' = Replace(t, {Goto(t, "du_unmute")})
                /\ marker' = [marker EXCEPT ![t.u] = 0]
        /\ gw' = NoCall
        /\ UNCHANGED <<platformVars, storeVars, cacheOwner, spamVars, cfg, worker, perms, calc, hist, budget, sweep>>

\* a plausible slip: only a return to the room that was left counts
MutedInRoomLeftOnly(t) == t.x = t.o /\ HasActiveMute(t.o, t.u)

\* is_muted_in_current: get_active_mute for the channel the user is in now
IsMutedInCurrent(t) == HasActiveMute(t.x, t.u)

\* a plausible slip: the unmute is issued without the marker
DuActiveUnmarked ==
    \E t \in At("du_active") :
        /\ tasks' = Replace(t, IF IsMutedInCurrent(t) THEN {} ELSE {Goto(t, "du_unmute")})
        /\ gw' = NoCall
        /\ UNCHANGED <<platformVars, storeVars, cacheOwner, marker, spamVars, cfg, worker, perms, calc, hist, budget, sweep>>

\* get_active_mute for the current channel; when there is none mark_pending_unmute
DuActive ==
    \E t \in At("du_active") :
        /\ IF IsMutedInCurrent(t)
           THEN /\ tasks' = Replace(t, {})
                /\ marker' = marker
           ELSE /\ tasks' = Replace(t, {Goto(t, "du_unmute")})
                /\ marker' = [marker EXCEPT ![t.u] = 0]
        /\ gw' = NoCall
        /\ UNCHANGED <<platformVars, storeVars, cacheOwner, spamVars, cfg, worker, perms, calc, hist, budget, sweep>>

\* apply_server_mute(false); a failure is logged and swallowed
DuUnmute ==
    \E t \in At("du_unmute") :
        /\ ApplyServerMute(t, FALSE, {}, "delayed_unmute")
        /\ UNCHANGED <<chan, pexists, storeVars, cacheOwner, marker, spamVars, cfg, worker, perms, calc, hist, budget, sweep>>

\* ---- services/jtc/channel_deleter.rs ------------------------------------
\* the platform deletes a voice channel: its members are disconnected, each
\* with a voice-state event, and the ChannelDelete event makes the event
\* handler drop the cache entry (Data::remove_channel); the overwrites go with the channel
DeleteEvents(r) ==
    UNION {VsTask(m, r, None, pmute[m], pmute[m]) : m \in {n \in Members : chan[n] = r}}

PlatformDelete(r) ==
    IF pexists[r] = "live"
    THEN /\ pexists' = [pexists EXCEPT ![r] = "gone"]
         /\ chan' = [m \in Members |-> IF chan[m] = r THEN None ELSE chan[m]]
         /\ cacheOwner' = [cacheOwner EXCEPT ![r] = None]
         /\ perms' = [perms EXCEPT ![r] = [m \in Members |-> {}]]
    ELSE UNCHANGED <<pexists, chan, cacheOwner, perms>>

\* delete_channel: voice_channel::delete, then Data::remove_channel
DelStore ==
    \E t \in At("del_store") :
        /\ vcOwner' = [vcOwner EXCEPT ![t.o] = None]
        /\ vcTopic' = [vcTopic EXCEPT ![t.o] = None]
        /\ vcTags' = [vcTags EXCEPT ![t.o] = {}]
        /\ cacheOwner' = [cacheOwner EXCEPT ![t.o] = None]
        /\ tasks' = Replace(t, {Goto(t, "del_platform")})
        /\ gw' = NoCall
        /\ UNCHANGED <<platformVars, muteStore, miscStore, marker, spamVars, cfg, worker, perms, calc, hist, budget, sweep>>

\* delete_channel: the platform delete, a failure is logged
DelPlatform ==
    \E t \in At("del_platform") :
        /\ PlatformDelete(t.o)
        /\ tasks' = Replace(t, IF pexists[t.o] = "live" THEN DeleteEvents(t.o) ELSE {})
        /\ gw' = Call("delete", t.u, t.o, "delete_channel")
        /\ UNCHANGED <<pmute, storeVars, marker, spamVars, cfg, worker, calc, hist, budget, sweep>>

\* transfer_ownership: voice_channel::update_owner, then set_channel_owner
XferStore ==
    \E t \in At("xfer_store") :
        /\ vcOwner' = UpdateOwner(t.o, t.x)
        /\ cacheOwner' = [cacheOwner EXCEPT ![t.o] = t.x]
        /\ tasks' = Replace(t, {})
        /\ gw' = NoCall
        /\ UNCHANGED <<platformVars, vcTopic, vcTags, muteStore, miscStore, marker, spamVars, cfg, worker, perms, calc, hist, budget, sweep>>

\* ---- services/jtc/channel_creator.rs ------------------------------------
\* start_jtc_flow: user_vc_preference::get; the saved name, if any, is the topic
JtcPref ==
    \E t \in At("jtc_pref") :
        /\ tasks' = Replace(t, {[t EXCEPT !.pc = "cc_platform", !.x = prefs[t.u].name, !.s = prefs[t.u].tags, !.lag = 0]})
        /\ gw' = NoCall
        /\ UNCHANGED <<platformVars, storeVars, cacheOwner, marker, spamVars, cfg, worker, perms, calc, hist, budget, sweep>>

\* a plausible slip: the category is not looked at
IsConfiguredRowOnly == cfg.configured

\* create_channel: a configuration row with a category for the kind of room
IsConfigured == cfg.configured /\ cfg.category

\* create_channel: guild_config::get, without a row or a category the error
\* JtcNotConfigured ends the flow and the handler that awaited it; else the
\* platform creates the voice channel with the owner's MUTE_MEMBERS overwrite
CcPlatform ==
    \E t \in At("cc_platform") :
        /\ IF IsConfigured
           THEN /\ FreeRooms # {}
                /\ LET r == CHOOSE f \in FreeRooms : TRUE
                   IN /\ pexists' = [pexists EXCEPT ![r] = "live"]
                      /\ perms' = [perms EXCEPT ![r][t.u] = {"MUTE_MEMBERS"}]
                      /\ tasks' = Replace(t, {[t EXCEPT !.pc = "cc_store", !.c = r, !.lag = 0]})
                      /\ gw' = Call("create", t.u, r, "create_channel")
                /\ hist' = hist
           ELSE /\ tasks' = Replace(t, {})
                /\ hist' = [hist EXCEPT !.errors = @ \cup {t.u}]
                /\ gw' = NoCall
                /\ UNCHANGED <<pexists, perms>>
        /\ UNCHANGED <<chan, pmute, storeVars, cacheOwner, marker, spamVars, cfg, worker, calc, budget, sweep>>

\* create_channel: voice_channel::create, then set_channel_owner
CcStore ==
    \E t \in At("cc_store") :
        /\ vcOwner' = [vcOwner EXCEPT ![t.c] = t.u]
        /\ vcTopic' = [vcTopic EXCEPT ![t.c] = t.x]
        /\ vcTags' = [vcTags EXCEPT ![t.c] = t.s]
        /\ cacheOwner' = [cacheOwner EXCEPT ![t.c] = t.u]
        /\ tasks' = Replace(t, {Goto(t, "cc_move")})
        /\ gw' = NoCall
        /\ UNCHANGED <<platformVars, muteStore, miscStore, marker, spamVars, cfg, worker, perms, calc, hist, budget, sweep>>

\* a plausible slip: the deadline and the prompt for every creation
AfterCreatePrompting(t) == {[t EXCEPT !.pc = "jtc_deadline", !.s = {}, !.lag = 0]}

\* what start_jtc_flow awaits after create_channel: create_deadline when the
\* room was created without a saved preference
AfterCreate(t) ==
    IF t.x = None THEN {[t EXCEPT !.pc = "jtc_deadline", !.s = {}, !.lag = 0]} ELSE AfterJoin([t EXCEPT !.s = {}])

\* create_channel: the user is moved into the room, a failure (the user has
\* disconnected, the room is gone) is logged; the welcome message follows,
\* whose failure is logged too
CcMove ==
    \E t \in At("cc_move") :
        /\ IF chan[t.u] # None /\ pexists[t.c] = "live"
           THEN /\ chan' = [chan EXCEPT ![t.u] = t.c]
                /\ tasks' = Replace(t, AfterCreate(t) \cup VsTask(t.u, chan[t.u], t.c, pmute[t.u], pmute[t.u]))
           ELSE /\ chan' = chan
                /\ tasks' = Replace(t, AfterCreate(t))
        /\ gw' = Call("move", t.u, t.c, "create_channel")
        /\ UNCHANGED <<pmute, pexists, storeVars, cacheOwner, marker, spamVars, cfg, worker, perms, calc, hist, budget, sweep>>

\* a plausible slip: a row that exists is left as it is (ON CONFLICT DO NOTHING)
CreateDeadlineIfAbsent(c) ==
    IF deadline[c] = NoTime THEN [deadline EXCEPT ![c] = VC_NAMING_DEADLINE_SECONDS] ELSE deadline

\* user_vc_preference::create_deadline: an upsert on the channel id
CreateDeadline(c) == [deadline EXCEPT ![c] = VC_NAMING_DEADLINE_SECONDS]

\* start_jtc_flow: create_deadline, then the naming prompt (a failure to send it is logged)
JtcDeadline ==
    \E t \in At("jtc_deadline") :
        /\ deadline' = CreateDeadline(t.c)
        /\ tasks' = Replace(t, AfterJoin(t))
        /\ gw' = Call("naming_prompt", t.u, t.c, "start_jtc_flow")
        /\ UNCHANGED <<platformVars, roomStore, muteStore, prefs, spamLevel, cacheOwner, marker, spamVars, cfg, worker, perms, calc, hist, budget, sweep>>

\* ---- components/naming_prompt.rs ----------------------------------------
\* handle_configure_button up to its await: only the owner the cache knows passes
ConfigureButton(u, r) ==
    /\ cacheOwner[r] = u
    /\ tasks' = tasks \cup {Task("cf", u, None, r, "cf_deadline", None, 0)}
    /\ Fits(tasks')
    /\ budget # 0
    /\ budget' = Dec(budget)
    /\ gw' = NoCall
    /\ UNCHANGED <<platformVars, storeVars, cacheOwner, marker, spamVars, cfg, worker, perms, calc, hist, sweep>>

\* handle_configure_button: create_deadline extends the deadline, then the modal is shown
CfDeadline ==
    \E t \in At("cf_deadline") :
        /\ deadline' = CreateDeadline(t.c)
        /\ hist' = [hist EXCEPT !.modal = @ \cup {<<t.u, t.c>>}]
        /\ tasks' = Replace(t, {})
        /\ gw' = Call("modal", t.u, t.c, "handle_configure_button")
        /\ UNCHANGED <<platformVars, roomStore, muteStore, prefs, spamLevel, cacheOwner, marker, spamVars, cfg, worker, perms, calc, budget, sweep>>

\* a user the modal has been shown to submits it, with an acceptable name
\* or with one that validate_channel_name rejects (written None): the
\* handler's first await is voice_channel::get for the one and
\* create_deadline for the other
NamingModal(u, r, name) ==
    /\ <<u, r>> \in hist.modal
    /\ tasks' = tasks \cup {Task("nm", u, None, r, IF name = None THEN "nm_extend" ELSE "nm_get", name, 0)}
    /\ Fits(tasks')
    /\ budget # 0
    /\ budget' = Dec(budget)
    /\ gw' = NoCall
    /\ UNCHANGED <<platformVars, storeVars, cacheOwner, marker, spamVars, cfg, worker, perms, calc, hist, sweep>>

\* handle_naming_modal, rejected name: create_deadline extends the deadline,
\* then the user is told and the handler returns
NmExtend ==
    \E t \in At("nm_extend") :
        /\ deadline' = CreateDeadline(t.c)
        /\ tasks' = Replace(t, {})
        /\ gw' = Call("rejected", t.u, t.c, "handle_naming_modal")
        /\ UNCHANGED <<platformVars, roomStore, muteStore, prefs, spamLevel, cacheOwner, marker, spamVars, cfg, worker, perms, calc, hist, budget, sweep>>

\* handle_naming_modal: voice_channel::get, no row ends the handler
NmGet ==
    \E t \in At("nm_get") :
        /\ tasks' = Replace(t, IF IsManaged(t.c) THEN {Goto(t, "nm_topic")} ELSE {})
        /\ gw' = NoCall
        /\ UNCHANGED <<platformVars, storeVars, cacheOwner, marker, spamVars, cfg, worker, perms, calc, hist, budget, sweep>>

\* update_channel_topic: voice_channel::update_topic
NmTopic ==
    \E t \in At("nm_topic") :
        /\ vcTopic' = IF vcOwner[t.c] # None THEN [vcTopic EXCEPT ![t.c] = t.x] ELSE vcTopic
        /\ tasks' = Replace(t, {Goto(t, "nm_edit")})
        /\ gw' = NoCall
        /\ UNCHANGED <<platformVars, vcOwner, vcTags, muteStore, miscStore, cacheOwner, marker, spamVars, cfg, worker, perms, calc, hist, budget, sweep>>

\* update_channel_topic: the platform edit of the name, whose failure ends the handler
NmEdit ==
    \E t \in At("nm_edit") :
        /\ tasks' = Replace(t, IF pexists[t.c] = "live" THEN {Goto(t, "nm_prefs")} ELSE {})
        /\ gw' = Call("rename", t.u, t.c, "update_channel_topic")
        /\ UNCHANGED <<platformVars, storeVars, cacheOwner, marker, spamVars, cfg, worker, perms, calc, hist, budget, sweep>>

\* handle_naming_modal: user_vc_preference::upsert with the name and no tags
NmPrefs ==
    \E t \in At("nm_prefs") :
        /\ prefs' = [prefs EXCEPT ![t.u] = [name |-> t.x, tags |-> {}]]
        /\ tasks' = Replace(t, {Goto(t, "nm_remove")})
        /\ gw' = NoCall
        /\ UNCHANGED <<platformVars, roomStore, muteStore, deadline, spamLevel, cacheOwner, marker, spamVars, cfg, worker, perms, calc, hist, budget, sweep>>

\* handle_naming_modal: user_vc_preference::remove_deadline, then the reply
\* and the tag selector sent to the room
NmRemove ==
    \E t \in At("nm_remove") :
        /\ deadline' = [deadline EXCEPT ![t.c] = NoTime]
        /\ hist' = [hist EXCEPT !.named = IF vcTopic[t.c] # None /\ deadline[t.c] > 0 THEN @ \cup {t.c} ELSE @,
                                 !.selector = @ \cup {t.c}]
        /\ tasks' = Replace(t, {})
        /\ gw' = NoCall
        /\ UNCHANGED <<platformVars, roomStore, muteStore, prefs, spamLevel, cacheOwner, marker, spamVars, cfg, worker, perms, calc, budget, sweep>>

\* ---- services/jtc/deadline_tracker.rs -----------------------------------
\* the checker between two rounds; timer: seconds until the interval fires,
\* NoTime when the checker is not run
IdleSweep(timer) == [timer |-> timer, pc |-> "idle", rows |-> {}, cur |-> None, lag |-> 0]

\* check_expired_deadlines goes on with the next expired row, in the order
\* the query returned them (it has no ORDER BY), or ends the round
SweepNext(rows) ==
    IF rows = {}
    THEN {[sweep EXCEPT !.pc = "idle", !.rows = {}, !.cur = None, !.lag = 0]}
    ELSE {[sweep EXCEPT !.pc = "sw_get", !.rows = rows \ {r}, !.cur = r, !.lag = 0] : r \in rows}

\* the interval fires: get_expired_deadlines, the rows with deadline_at <= NOW()
SwExpired ==
    /\ sweep.pc = "idle"
    /\ sweep.timer = 0
    /\ \E n \in SweepNext({r \in Rooms : deadline[r] = 0}) :
           sweep' = [n EXCEPT !.timer = CHECK_INTERVAL_SECONDS]
    /\ gw' = NoCall
    /\ UNCHANGED <<platformVars, storeVars, cacheOwner, marker, spamVars, cfg, worker, perms, calc, hist, budget, tasks>>

\* a plausible slip: the topic test the wrong way round
SweepDeletesNamed(r) == IsManaged(r) /\ vcTopic[r] # None

\* check_expired_deadlines deletes the room of an expired row when the room
\* still has a store row and that row has no topic
SweepDeletes(r) == IsManaged(r) /\ vcTopic[r] = None

\* voice_channel::get for the expired row: a room that is still there and
\* has no topic is deleted, any other only loses its deadline
SwGet ==
    /\ sweep.pc = "sw_get"
    /\ sweep' = [sweep EXCEPT !.pc = IF SweepDeletes(sweep.cur) THEN "sw_platform" ELSE "sw_remove", !.lag = 0]
    /\ gw' = NoCall
    /\ UNCHANGED <<platformVars, storeVars, cacheOwner, marker, spamVars, cfg, worker, perms, calc, hist, budget, tasks>>

\* the platform delete (a failure is logged), then the owner is told by direct message
SwPlatform ==
    /\ sweep.pc = "sw_platform"
    /\ PlatformDelete(sweep.cur)
    /\ tasks' = tasks \cup (IF pexists[sweep.cur] = "live" THEN DeleteEvents(sweep.cur) ELSE {})
    /\ sweep' = [sweep EXCEPT !.pc = "sw_store", !.lag = 0]
    /\ gw' = Call("delete", None, sweep.cur, "check_expired_deadlines")
    /\ UNCHANGED <<pmute, storeVars, marker, spamVars, cfg, worker, calc, hist, budget>>

\* voice_channel::delete, then Data::remove_channel
SwStore ==
    /\ sweep.pc = "sw_store"
    /\ vcOwner' = [vcOwner EXCEPT ![sweep.cur] = None]
    /\ vcTopic' = [vcTopic EXCEPT ![sweep.cur] = None]
    /\ vcTags' = [vcTags EXCEPT ![sweep.cur] = {}]
    /\ cacheOwner' = [cacheOwner EXCEPT ![sweep.cur] = None]
    /\ sweep' = [sweep EXCEPT !.pc = "sw_remove", !.lag = 0]
    /\ gw' = NoCall
    /\ UNCHANGED <<platformVars, muteStore, miscStore, marker, spamVars, cfg, worker, perms, calc, hist, budget, tasks>>

\* user_vc_preference::remove_deadline, for every expired row
SwRemove ==
    /\ sweep.pc = "sw_remove"
    /\ deadline' = [deadline EXCEPT ![sweep.cur] = NoTime]
    /\ \E n \in SweepNext(sweep.rows) : sweep' = n
    /\ gw' = NoCall
    /\ UNCHANGED <<platformVars, roomStore, muteStore, prefs, spamLevel, cacheOwner, marker, spamVars, cfg, worker, perms, calc, hist, budget, tasks>>

\* ---- time ---------------------------------------------------------------
\* the next step of a task is not held back by a bound of the model
Ready(t) ==
    CASE t.pc = "join_get" -> ~IsManaged(t.c) \/ CanRecord(t.c, t.u)
      [] t.pc = "leave_get" -> ~IsManaged(t.o) \/ CanRecord(t.o, t.u)
      [] t.pc \in {"md_create", "mu_create"} -> BagCardinality(mutes) < MaxMutes
      [] t.pc = "cc_platform" -> ~IsConfigured \/ FreeRooms # {}
      [] OTHER -> TRUE

\* a task whose awaited operation has taken as long as it may: it makes its
\* step before time goes on
Urgent(t) == t.t = 0 /\ t.lag >= MaxOpSeconds /\ Ready(t)

SweepUrgent ==
    \/ sweep.pc = "idle" /\ sweep.timer = 0
    \/ sweep.pc # "idle" /\ sweep.lag >= MaxOpSeconds

\* the queue processor can go on: its sleep is over, a request has arrived,
\* or the start_jtc_flow it awaited (the task of kind "qw") has returned
WorkerUrgent ==
    \/ worker.pc = "sleep" /\ worker.timer = 0
    \/ worker.pc = "recv" /\ worker.queue # <<>>
    \/ worker.pc = "flow" /\ ~\E t \in tasks : t.k = "qw"

\* one second passes: sleeps and deadlines run down, markers and recorded
\* events age (an age stops counting once it is past every comparison made on it)
Tick ==
    /\ \A t \in tasks : ~Urgent(t)
    /\ ~SweepUrgent
    /\ ~WorkerUrgent
    /\ worker' = [worker EXCEPT !.timer = Dec(@)]
    /\ marker' = [u \in Members |-> Inc(marker[u], PENDING_UNMUTE_VALID_SECONDS)]
    /\ tasks' = {[t EXCEPT !.t = Dec(@), !.lag = IF t.t = 0 THEN Inc(@, MaxOpSeconds) ELSE @] : t \in tasks}
    /\ activity' = [c \in Rooms |-> [u \in Members |->
                      [i \in 1..Len(activity[c][u]) |-> Inc(activity[c][u][i], cfg.window + 1)]]]
    /\ prompted' = [c \in Rooms |-> [u \in Members |-> Inc(prompted[c][u], PROMPT_RECENT_SECONDS)]]
    /\ deadline' = [c \in Rooms |-> Dec(deadline[c])]
    /\ sweep' = [sweep EXCEPT !.timer = Dec(@), !.lag = IF sweep.pc # "idle" THEN Inc(@, MaxOpSeconds) ELSE @]
    /\ hist' = [hist EXCEPT !.timeout = [m \in Members |-> Inc(hist.timeout[m], cfg.window + 1)]]
    /\ <<marker', tasks', activity', prompted', deadline', sweep', worker'>> # <<marker, tasks, activity, prompted, deadline, sweep, worker>>
    /\ gw' = NoCall
    /\ UNCHANGED <<platformVars, roomStore, muteStore, prefs, spamLevel, cacheOwner, cfg, perms, calc, budget>>

\* ---- the mute reconciler on two standing rooms --------------------------
\* u2 owns r1 and u3 owns r2 and both stay in their rooms; u1 moves between
\* the rooms, an unmanaged channel and no channel, and is muted and unmuted
\* by hand and by the owners' commands
DefaultSettings == [prompt_threshold |-> 5, timeout_threshold |-> 10, window |-> 60, configured |-> TRUE, category |-> TRUE]

StandingRooms ==
    /\ chan = [m \in Members |-> IF m = "u2" THEN "r1" ELSE IF m = "u3" THEN "r2" ELSE None]
    /\ pmute = [m \in Members |-> FALSE]
    /\ pexists = [r \in Rooms |-> "live"]
    /\ vcOwner = [r \in Rooms |-> IF r = "r1" THEN "u2" ELSE "u3"]
    /\ vcTopic = [r \in Rooms |-> "a"]
    /\ vcTags = [r \in Rooms |-> {}]
    /\ gmute = [m \in Members |-> FALSE]
    /\ deadline = [r \in Rooms |-> NoTime]
    /\ prefs = [m \in Members |-> NoPref]
    /\ spamLevel = [m \in Members |-> 0]
    /\ cacheOwner = vcOwner
    /\ marker = [m \in Members |-> NoTime]
    /\ activity = [c \in Rooms |-> [u \in Members |-> <<>>]]
    /\ prompted = [c \in Rooms |-> [u \in Members |-> NoTime]]
    /\ tasks = {}
    /\ sweep = IdleSweep(NoTime)
    /\ gw = NoCall
    /\ hist = NoHist
    /\ perms = CreatedPerms(vcOwner)
    /\ worker = IdleWorker
    /\ calc = NoCalc

MaxMuteEvents == 6

InitMute ==
    /\ StandingRooms
    /\ budget = MaxMuteEvents
    /\ mutes = EmptyBag
    /\ cfg = [DefaultSettings EXCEPT !.window = 0]

MuteTarget == "u1"

HopSteps ==
    \/ JoinGet
    \/ JoinActive
    \/ JoinRemute
    \/ LeaveGet
    \/ LeaveActive
    \/ DuGlobal
    \/ DuActive
    \/ DuUnmute

NextMute ==
    \/ \E c \in Rooms \cup {PlainChannel, None} : UserMove(MuteTarget, c)
    \/ \E flag \in BOOLEAN : ManualMute(MuteTarget, flag)
    \/ \E a \in Humans : MuteCommand(a, MuteTarget)
    \/ \E a \in Humans : UnmuteCommand(a, MuteTarget)
    \/ MuUserMute
    \/ MuUserCreate
    \/ UuUserClose
    \/ UuUserUnmute
    \/ MdGet
    \/ MdActive
    \/ MdCreate
    \/ MdGlobal
    \/ UdConsume
    \/ UdUnmute
    \/ UdGlobal
    \/ HopSteps
    \/ Tick

SpecMute == InitMute /\ [][NextMute]_vars

\* ---- a muted user joins under the activity detector ---------------------
\* u2 owns r1 and has muted u1 there; u1, unmuted again after leaving, joins
\* and leaves r1; the detector prompts from the first event and times out from
\* the second within five seconds
MaxJoinEvents == 4

InitJoin ==
    /\ StandingRooms
    /\ budget = MaxJoinEvents
    /\ mutes = SetToBag({MuteRow("r1", MuteTarget, "u2", FALSE)})
    /\ cfg = [DefaultSettings EXCEPT !.prompt_threshold = 1, !.timeout_threshold = 2, !.window = 5]

SpamSteps ==
    \/ SpIncrement
    \/ SpTimeout
    \/ SpPromptOk
    \/ SpPromptErr

NextJoin ==
    \/ \E c \in {"r1", None} : UserMove(MuteTarget, c)
    \/ HopSteps
    \/ SpamSteps
    \/ MdGet
    \/ MdActive
    \/ UdConsume
    \/ Tick

SpecJoin == InitJoin /\ [][NextJoin]_vars

\* ---- a room's life: leaves, transfers, deletion -------------------------
\* u2 owns r1 and has muted u1 there with /mute; both are in the room.  The
\* members come and go and owners hand the room over with /transfer, a
\* bounded number of times; every task that can make a step makes it in the
\* end and time goes on.
MaxLifeEvents == 5

InitLife ==
    /\ chan = [m \in Members |-> IF m \in {"u1", "u2"} THEN "r1" ELSE None]
    /\ pmute = [m \in Members |-> m = "u1"]
    /\ pexists = [r \in Rooms |-> IF r = "r1" THEN "live" ELSE "free"]
    /\ vcOwner = [r \in Rooms |-> IF r = "r1" THEN "u2" ELSE None]
    /\ vcTopic = [r \in Rooms |-> IF r = "r1" THEN "a" ELSE None]
    /\ mutes = SetToBag({MuteRow("r1", "u1", "u2", FALSE)})
    /\ gmute = [m \in Members |-> FALSE]
    /\ deadline = [r \in Rooms |-> NoTime]
    /\ prefs = [m \in Members |-> NoPref]
    /\ vcTags = [r \in Rooms |-> {}]
    /\ spamLevel = [m \in Members |-> 0]
    /\ cacheOwner = vcOwner
    /\ marker = [m \in Members |-> NoTime]
    /\ activity = [c \in Rooms |-> [u \in Members |-> <<>>]]
    /\ prompted = [c \in Rooms |-> [u \in Members |-> NoTime]]
    /\ cfg = [DefaultSettings EXCEPT !.window = 0]
    /\ tasks = {}
    /\ sweep = IdleSweep(NoTime)
    /\ budget = MaxLifeEvents
    /\ gw = NoCall
    /\ hist = NoHist
    /\ perms = CreatedPerms(vcOwner)
    /\ worker = IdleWorker
    /\ calc = NoCalc

LifeUsers ==
    \/ \E u \in Members, c \in {"r1", None} : UserMove(u, c)
    \/ \E a \in Humans, u \in Humans : TransferCommand(a, u)

LifeSystem ==
    \/ HopSteps
    \/ DelStore
    \/ DelPlatform
    \/ XferStore
    \/ TrStore
    \/ MdGet
    \/ MdActive
    \/ MdGlobal
    \/ UdConsume
    \/ Tick

NextLife == LifeUsers \/ LifeSystem

SpecLife == InitLife /\ [][NextLife]_vars /\ WF_vars(LifeSystem)

\* ---- the owner's overwrite ------------------------------------------------
\* the same room and the same events, and the owners use the transfer menu too
NextPerm ==
    \/ NextLife
    \/ \E a \in Humans, u \in Humans : MenuTransfer(a, u)
    \/ MtStore

SpecPerm == InitLife /\ [][NextPerm]_vars

\* ---- Join-to-Create under the naming deadline ---------------------------
\* No room exists yet and one room id is left to allocate.  u1 joins the
\* trigger channel without a saved preference; u1 and u2 come and go, press
\* the Configure button and u1 submits the naming modal, a bounded number of
\* times.  The deadline checker runs from the start, its first round at once.
MaxDeadlineEvents == 3

DeadlineRoom == "r1"

InitDeadline ==
    /\ chan = [m \in Members |-> None]
    /\ pmute = [m \in Members |-> FALSE]
    /\ pexists = [r \in Rooms |-> IF r = DeadlineRoom THEN "free" ELSE "gone"]
    /\ vcOwner = [r \in Rooms |-> None]
    /\ vcTopic = [r \in Rooms |-> None]
    /\ mutes = EmptyBag
    /\ gmute = [m \in Members |-> FALSE]
    /\ deadline = [r \in Rooms |-> NoTime]
    /\ prefs = [m \in Members |-> NoPref]
    /\ vcTags = [r \in Rooms |-> {}]
    /\ spamLevel = [m \in Members |-> 0]
    /\ cacheOwner = vcOwner
    /\ marker = [m \in Members |-> NoTime]
    /\ activity = [c \in Rooms |-> [u \in Members |-> <<>>]]
    /\ prompted = [c \in Rooms |-> [u \in Members |-> NoTime]]
    /\ cfg = [DefaultSettings EXCEPT !.window = 0]
    /\ tasks = {}
    /\ sweep = IdleSweep(0)
    /\ budget = MaxDeadlineEvents
    /\ gw = NoCall
    /\ hist = NoHist
    /\ perms = CreatedPerms(vcOwner)
    /\ worker = IdleWorker
    /\ calc = NoCalc

DeadlineSystem ==
    \/ JtcPref
    \/ CcPlatform
    \/ CcStore
    \/ CcMove
    \/ JtcDeadline
    \/ JoinGet
    \/ JoinActive
    \/ LeaveGet
    \/ LeaveActive
    \/ DelStore
    \/ DelPlatform
    \/ CfDeadline
    \/ NmExtend
    \/ NmGet
    \/ NmTopic
    \/ NmEdit
    \/ NmPrefs
    \/ NmRemove
    \/ SwExpired
    \/ SwGet
    \/ SwPlatform
    \/ SwStore
    \/ SwRemove
    \/ Tick

NextDeadline ==
    \/ \E c \in {JtcChannel, None} : UserMove("u1", c)
    \/ \E c \in {DeadlineRoom, None} : UserMove("u2", c)
    \/ \E u \in {"u1", "u2"} : ConfigureButton(u, DeadlineRoom)
    \/ \E n \in {"a", None} : NamingModal("u1", DeadlineRoom, n)
    \/ DeadlineSystem

SpecDeadline == InitDeadline /\ [][NextDeadline]_vars /\ WF_vars(DeadlineSystem)

\* ---- components/tag_selector.rs -----------------------------------------
\* somebody picks tags in the selector of a room
TagSelection(u, r, tags) ==
    /\ r \in hist.selector
    /\ pexists[r] = "live"
    /\ tasks' = tasks \cup {[Task("tg", u, None, r, "tg_tags", None, 0) EXCEPT !.s = tags]}
    /\ Fits(tasks')
    /\ budget # 0
    /\ budget' = Dec(budget)
    /\ gw' = NoCall
    /\ UNCHANGED <<platformVars, storeVars, cacheOwner, marker, spamVars, cfg, worker, perms, calc, hist, sweep>>

\* update_channel_tags: voice_channel::update_tags, an UPDATE, then the
\* channel status (a failure is logged)
TgTags ==
    \E t \in At("tg_tags") :
        /\ vcTags' = IF vcOwner[t.c] # None THEN [vcTags EXCEPT ![t.c] = t.s] ELSE vcTags
        /\ tasks' = Replace(t, {Goto(t, "tg_get")})
        /\ gw' = Call("status", t.u, t.c, "update_channel_tags")
        /\ UNCHANGED <<platformVars, vcOwner, vcTopic, muteStore, miscStore, cacheOwner, marker, spamVars, cfg, worker, perms, calc, hist, budget, sweep>>

\* handle_selection: voice_channel::get, without a row no preference is saved
TgGet ==
    \E t \in At("tg_get") :
        /\ tasks' = Replace(t, IF IsManaged(t.c) THEN {Goto(t, "tg_pref")} ELSE {})
        /\ gw' = NoCall
        /\ UNCHANGED <<platformVars, storeVars, cacheOwner, marker, spamVars, cfg, worker, perms, calc, hist, budget, sweep>>

\* handle_selection: user_vc_preference::get, the tags are saved only into an existing row
TgPref ==
    \E t \in At("tg_pref") :
        /\ tasks' = Replace(t, IF prefs[t.u] # NoPref THEN {GotoX(t, "tg_upsert", prefs[t.u].name)} ELSE {})
        /\ gw' = NoCall
        /\ UNCHANGED <<platformVars, storeVars, cacheOwner, marker, spamVars, cfg, worker, perms, calc, hist, budget, sweep>>

\* handle_selection: user_vc_preference::upsert with the name read and the tags picked
TgUpsert ==
    \E t \in At("tg_upsert") :
        /\ prefs' = [prefs EXCEPT ![t.u] = [name |-> t.x, tags |-> t.s]]
        /\ tasks' = Replace(t, {})
        /\ gw' = NoCall
        /\ UNCHANGED <<platformVars, roomStore, muteStore, deadline, spamLevel, cacheOwner, marker, spamVars, cfg, worker, perms, calc, hist, budget, sweep>>

\* ---- a user names a room, picks tags and creates the next room ----------
\* u1 creates rooms through the trigger channel, names them, picks tags and
\* disconnects
MaxPrefEvents == 6

InitPref ==
    /\ chan = [m \in Members |-> None]
    /\ pmute = [m \in Members |-> FALSE]
    /\ pexists = [r \in Rooms |-> "free"]
    /\ vcOwner = [r \in Rooms |-> None]
    /\ vcTopic = [r \in Rooms |-> None]
    /\ vcTags = [r \in Rooms |-> {}]
    /\ mutes = EmptyBag
    /\ gmute = [m \in Members |-> FALSE]
    /\ deadline = [r \in Rooms |-> NoTime]
    /\ prefs = [m \in Members |-> NoPref]
    /\ spamLevel = [m \in Members |-> 0]
    /\ cacheOwner = vcOwner
    /\ marker = [m \in Members |-> NoTime]
    /\ activity = [c \in Rooms |-> [u \in Members |-> <<>>]]
    /\ prompted = [c \in Rooms |-> [u \in Members |-> NoTime]]
    /\ cfg = [DefaultSettings EXCEPT !.window = 0]
    /\ tasks = {}
    /\ sweep = IdleSweep(NoTime)
    /\ budget = MaxPrefEvents
    /\ gw = NoCall
    /\ hist = NoHist
    /\ perms = CreatedPerms(vcOwner)
    /\ worker = IdleWorker
    /\ calc = NoCalc

NextPref ==
    \/ \E c \in {JtcChannel, None} : UserMove("u1", c)
    \/ \E r \in Rooms : ConfigureButton("u1", r)
    \/ \E r \in Rooms, n \in Names : NamingModal("u1", r, n)
    \/ \E r \in Rooms, T \in SUBSET Tags : TagSelection("u1", r, T)
    \/ JtcPref
    \/ CcPlatform
    \/ CcStore
    \/ CcMove
    \/ JtcDeadline
    \/ JoinGet
    \/ JoinActive
    \/ LeaveGet
    \/ DelStore
    \/ DelPlatform
    \/ CfDeadline
    \/ NmGet
    \/ NmTopic
    \/ NmEdit
    \/ NmPrefs
    \/ NmRemove
    \/ TgTags
    \/ TgGet
    \/ TgPref
    \/ TgUpsert

SpecPref == InitPref /\ [][NextPref]_vars

\* ---- two users join and leave a room under the activity detector --------
\* u2 owns r1 and stays in it; u1 joins and leaves r1, u3 joins it; the
\* thresholds and the window are those of the join specification. The store
\* may hold a SpamRecord of u1 from before: level 2, its last_infraction_at
\* TIMEOUT_RESET_DAYS (30 days) or more in the past, so should_reset() is true
MaxSpamEvents == 3

InitSpam ==
    /\ chan = [m \in Members |-> IF m = "u2" THEN "r1" ELSE None]
    /\ pmute = [m \in Members |-> FALSE]
    /\ pexists = [r \in Rooms |-> IF r = "r1" THEN "live" ELSE "gone"]
    /\ vcOwner = [r \in Rooms |-> IF r = "r1" THEN "u2" ELSE None]
    /\ vcTopic = [r \in Rooms |-> IF r = "r1" THEN "a" ELSE None]
    /\ vcTags = [r \in Rooms |-> {}]
    /\ mutes = EmptyBag
    /\ gmute = [m \in Members |-> FALSE]
    /\ deadline = [r \in Rooms |-> NoTime]
    /\ prefs = [m \in Members |-> NoPref]
    /\ \E l \in {0, 2} : spamLevel = [m \in Members |-> IF m = "u1" THEN l ELSE 0]
    /\ cacheOwner = vcOwner
    /\ marker = [m \in Members |-> NoTime]
    /\ activity = [c \in Rooms |-> [u \in Members |-> <<>>]]
    /\ prompted = [c \in Rooms |-> [u \in Members |-> NoTime]]
    /\ cfg = [DefaultSettings EXCEPT !.prompt_threshold = 1, !.timeout_threshold = 2, !.window = 5]
    /\ tasks = {}
    /\ sweep = IdleSweep(NoTime)
    /\ budget = MaxSpamEvents
    /\ gw = NoCall
    /\ hist = [NoHist EXCEPT !.stale = {m \in Members : spamLevel[m] > 0}]
    /\ perms = CreatedPerms(vcOwner)
    /\ worker = IdleWorker
    /\ calc = NoCalc

NextSpam ==
    \/ \E c \in {"r1", None} : UserMove("u1", c)
    \/ UserMove("u3", "r1")
    \/ JoinGet
    \/ JoinActive
    \/ LeaveGet
    \/ LeaveActive
    \/ SpamSteps
    \/ Tick

SpecSpam == InitSpam /\ [][NextSpam]_vars

\* ---- services/jtc/queue.rs ----------------------------------------------
RATE_LIMIT_DELAY_SECONDS == 1
\* the startup check waits for the gateway cache to fill
STARTUP_CHECK_DELAY_SECONDS == 3

\* the orders in which the members of S can be queued: the iteration order
\* of the voice-state map is unspecified
Orders(S) ==
    {q \in [1..Cardinality(S) -> S] : \A i, j \in 1..Cardinality(S) : i # j => q[i] # q[j]}

\* get_users_in_channel without the bots, for the trigger channel of a
\* configuration row that names one
UsersToQueue == {m \in Members : chan[m] = JtcChannel /\ m \notin Bots /\ cfg.configured}

\* check_jtc_channels_on_startup: every user found in the trigger channel is
\* queued, as a JtcQueueEntry of the user and the channel
StCheck ==
    \E t \in At("st_check") :
        /\ \E q \in Orders(UsersToQueue) :
              worker' = [worker EXCEPT !.queue = @ \o [i \in 1..Len(q) |-> [u |-> q[i], c |-> t.c]]]
        /\ tasks' = Replace(t, {})
        /\ gw' = NoCall
        /\ UNCHANGED <<platformVars, perms, storeVars, cacheOwner, marker, spamVars, cfg, calc, hist, budget, sweep>>

\* a plausible slip: the request is taken as it was queued
StillInChannelUnchecked(e) == TRUE

\* process_jtc_queue_with_context: still_in_channel, read from the gateway cache
StillInChannel(e) == chan[e.u] = e.c

\* recv returns a request: a user who is no longer in the trigger channel is
\* skipped, for the others start_jtc_flow is called and awaited
WkRecv ==
    /\ worker.pc = "recv"
    /\ worker.queue # <<>>
    /\ LET e == Head(worker.queue)
       IN IF StillInChannel(e)
          THEN /\ tasks' = tasks \cup {Task("qw", e.u, None, e.c, "jtc_pref", None, 0)}
               /\ worker' = [worker EXCEPT !.pc = "flow", !.queue = Tail(@)]
               /\ hist' = [hist EXCEPT !.flows = @ + 1, !.slept = FALSE]
          ELSE /\ tasks' = tasks
               /\ worker' = [worker EXCEPT !.queue = Tail(@)]
               /\ hist' = [hist EXCEPT !.dropped = @ \cup {e.u}]
    /\ gw' = NoCall
    /\ UNCHANGED <<platformVars, perms, storeVars, cacheOwner, marker, spamVars, cfg, calc, budget, sweep>>

\* a plausible slip: the next request is taken at once
NextRequestAtOnce == [worker EXCEPT !.pc = "recv"]

\* after the match on the result of start_jtc_flow: sleep(RATE_LIMIT_DELAY)
SleepAfterFlow == [worker EXCEPT !.pc = "sleep", !.timer = RATE_LIMIT_DELAY_SECONDS]

\* a plausible slip: an error of start_jtc_flow ends the loop
WkDoneStopsOnError ==
    /\ worker.pc = "flow"
    /\ ~\E t \in tasks : t.k = "qw"
    /\ worker' = IF hist.errors # {} THEN [worker EXCEPT !.pc = "stopped"] ELSE SleepAfterFlow
    /\ gw' = NoCall
    /\ UNCHANGED <<platformVars, perms, storeVars, cacheOwner, marker, spamVars, cfg, calc, hist, budget, sweep, tasks>>

\* start_jtc_flow has returned, with Ok or with an error, which is logged
WkDone ==
    /\ worker.pc = "flow"
    /\ ~\E t \in tasks : t.k = "qw"
    /\ worker' = SleepAfterFlow
    /\ gw' = NoCall
    /\ UNCHANGED <<platformVars, perms, storeVars, cacheOwner, marker, spamVars, cfg, calc, hist, budget, sweep, tasks>>

\* the sleep is over: the loop awaits recv again
WkWake ==
    /\ worker.pc = "sleep"
    /\ worker.timer = 0
    /\ worker' = [worker EXCEPT !.pc = "recv"]
    /\ hist' = [hist EXCEPT !.slept = TRUE]
    /\ gw' = NoCall
    /\ UNCHANGED <<platformVars, perms, storeVars, cacheOwner, marker, spamVars, cfg, calc, budget, sweep, tasks>>

\* ---- the trigger channel at and after startup ----------------------------
\* u1 and u2 are in the trigger channel when the bot starts; the guild has a
\* category for the rooms or has none.  The users leave and join the
\* trigger channel a bounded number of times.  The setup has spawned the
\* startup check, which sleeps first, and the queue processor.
MaxQueueEvents == 2

InitQueue ==
    /\ chan = [m \in Members |-> IF m \in {"u1", "u2"} THEN JtcChannel ELSE None]
    /\ pmute = [m \in Members |-> FALSE]
    /\ pexists = [r \in Rooms |-> "free"]
    /\ vcOwner = [r \in Rooms |-> None]
    /\ vcTopic = [r \in Rooms |-> None]
    /\ vcTags = [r \in Rooms |-> {}]
    /\ mutes = EmptyBag
    /\ gmute = [m \in Members |-> FALSE]
    /\ deadline = [r \in Rooms |-> NoTime]
    /\ prefs = [m \in Members |-> NoPref]
    /\ spamLevel = [m \in Members |-> 0]
    /\ cacheOwner = vcOwner
    /\ marker = [m \in Members |-> NoTime]
    /\ activity = [c \in Rooms |-> [u \in Members |-> <<>>]]
    /\ prompted = [c \in Rooms |-> [u \in Members |-> NoTime]]
    /\ \E b \in BOOLEAN : cfg = [DefaultSettings EXCEPT !.window = 0, !.category = b]
    /\ tasks = {Task("st", None, None, JtcChannel, "st_check", None, STARTUP_CHECK_DELAY_SECONDS)}
    /\ sweep = IdleSweep(NoTime)
    /\ budget = MaxQueueEvents
    /\ gw = NoCall
    /\ hist = NoHist
    /\ perms = CreatedPerms(vcOwner)
    /\ worker = IdleWorker
    /\ calc = NoCalc

NextQueue ==
    \/ \E u \in Humans, c \in {JtcChannel, None} : UserMove(u, c)
    \/ StCheck
    \/ WkRecv
    \/ WkDone
    \/ WkWake
    \/ JtcPref
    \/ CcPlatform
    \/ CcStore
    \/ CcMove
    \/ JtcDeadline
    \/ JoinGet
    \/ JoinActive
    \/ LeaveGet
    \/ DelStore
    \/ DelPlatform
    \/ Tick

SpecQueue == InitQueue /\ [][NextQueue]_vars

\* the same start, where the users only disconnect: every start_jtc_flow is
\* one of the queue processor's and finds a room id to allocate.  The
\* runtime goes on polling the tasks that can go on and the clock goes on:
\* the steps that are not a user's (a user's step spends the budget) are
\* taken when they stay possible.
NextQueueFair ==
    \/ \E u \in Humans : UserMove(u, None)
    \/ StCheck
    \/ WkRecv
    \/ WkDone
    \/ WkWake
    \/ JtcPref
    \/ CcPlatform
    \/ CcStore
    \/ CcMove
    \/ JtcDeadline
    \/ JoinGet
    \/ JoinActive
    \/ LeaveGet
    \/ DelStore
    \/ DelPlatform
    \/ Tick

SpecQueueFair == InitQueue /\ [][NextQueueFair]_vars /\ WF_vars(NextQueueFair /\ budget' = budget)

\* ---- services/spam/timeout_calculator.rs ---------------------------------
\* constants/timeouts.rs: the progressive timeout durations in seconds, levels 0 to 7
TIMEOUT_DURATIONS ==
    <<15 * 60, 60 * 60, 6 * 60 * 60, 24 * 60 * 60,
      3 * 24 * 60 * 60, 7 * 24 * 60 * 60, 14 * 24 * 60 * 60, 14 * 24 * 60 * 60>>

\* a plausible slip: a level past the table starts over
get_timeout_duration_wrapping(level) == TIMEOUT_DURATIONS[(level % Len(TIMEOUT_DURATIONS)) + 1]

\* level.min(TIMEOUT_DURATIONS.len() - 1), then the entry at that index
\* (the table is indexed from 0, the sequence from 1)
get_timeout_duration(level) ==
    LET last == Len(TIMEOUT_DURATIONS) - 1
        index == IF level < last THEN level ELSE last
    IN TIMEOUT_DURATIONS[index + 1]

\* the highest level passed to get_timeout_duration
MaxLevel == 9

\* nothing runs but two calls of get_timeout_duration, with any two levels
InitCalc ==
    /\ chan = [m \in Members |-> None]
    /\ pmute = [m \in Members |-> FALSE]
    /\ pexists = [r \in Rooms |-> "free"]
    /\ vcOwner = [r \in Rooms |-> None]
    /\ vcTopic = [r \in Rooms |-> None]
    /\ vcTags = [r \in Rooms |-> {}]
    /\ mutes = EmptyBag
    /\ gmute = [m \in Members |-> FALSE]
    /\ deadline = [r \in Rooms |-> NoTime]
    /\ prefs = [m \in Members |-> NoPref]
    /\ spamLevel = [m \in Members |-> 0]
    /\ cacheOwner = vcOwner
    /\ marker = [m \in Members |-> NoTime]
    /\ activity = [c \in Rooms |-> [u \in Members |-> <<>>]]
    /\ prompted = [c \in Rooms |-> [u \in Members |-> NoTime]]
    /\ cfg = DefaultSettings
    /\ tasks = {}
    /\ sweep = IdleSweep(NoTime)
    /\ budget = NoTime
    /\ gw = NoCall
    /\ hist = NoHist
    /\ perms = CreatedPerms(vcOwner)
    /\ worker = IdleWorker
    /\ \E a \in 0..MaxLevel, b \in 0..MaxLevel : calc = [NoCalc EXCEPT !.a = a, !.b = b]

\* the two calls return
GetTimeoutDuration ==
    /\ calc.ra = NoTime
    /\ calc' = [calc EXCEPT !.ra = get_timeout_duration(calc.a), !.rb = get_timeout_duration(calc.b)]
    /\ UNCHANGED <<platformVars, perms, storeVars, cacheOwner, marker, spamVars, cfg, tasks, sweep, worker, budget, gw, hist>>

SpecCalc == InitCalc /\ [][GetTimeoutDuration]_vars

\* ---- store writes that fail ---------------------------------------------
\* voice_channel::create, voice_channel::delete or voice_channel::update_owner
\* returns an error: create_channel, delete_channel and transfer_ownership
\* propagate it with `?` before they touch the cache, and so do their
\* callers; the handler ends
StoreWriteErr ==
    \E t \in tasks :
        /\ t.pc \in {"cc_store", "del_store", "xfer_store"}
        /\ tasks' = Replace(t, {})
        /\ gw' = Call("store_failed", t.u, IF t.pc = "cc_store" THEN t.c ELSE t.o, t.pc)
        /\ UNCHANGED <<platformVars, storeVars, cacheOwner, marker, spamVars, cfg, worker, perms, calc, hist, budget, sweep>>

\* check_expired_deadlines: voice_channel::delete returns an error, which
\* ends the round; the rows not yet visited and the row of this room keep
\* their deadline and the checker logs the error and waits for its next tick
SwStoreErr ==
    /\ sweep.pc = "sw_store"
    /\ sweep' = [sweep EXCEPT !.pc = "idle", !.rows = {}, !.cur = None, !.lag = 0]
    /\ gw' = Call("store_failed", None, sweep.cur, "sw_store")
    /\ UNCHANGED <<platformVars, storeVars, cacheOwner, marker, spamVars, cfg, worker, perms, calc, hist, budget, tasks>>

\* Join-to-Create under the naming deadline with store writes that may
\* fail: as before no room exists and one room id is left; u3 may join the
\* room too, so that an owner who leaves can leave two members behind
MaxStoreErrEvents == 4

InitStoreErr ==
    /\ chan = [m \in Members |-> None]
    /\ pmute = [m \in Members |-> FALSE]
    /\ pexists = [r \in Rooms |-> IF r = DeadlineRoom THEN "free" ELSE "gone"]
    /\ vcOwner = [r \in Rooms |-> None]
    /\ vcTopic = [r \in Rooms |-> None]
    /\ mutes = EmptyBag
    /\ gmute = [m \in Members |-> FALSE]
    /\ deadline = [r \in Rooms |-> NoTime]
    /\ prefs = [m \in Members |-> NoPref]
    /\ vcTags = [r \in Rooms |-> {}]
    /\ spamLevel = [m \in Members |-> 0]
    /\ cacheOwner = vcOwner
    /\ marker = [m \in Members |-> NoTime]
    /\ activity = [c \in Rooms |-> [u \in Members |-> <<>>]]
    /\ prompted = [c \in Rooms |-> [u \in Members |-> NoTime]]
    /\ cfg = [DefaultSettings EXCEPT !.window = 0]
    /\ tasks = {}
    /\ sweep = IdleSweep(0)
    /\ budget = MaxStoreErrEvents
    /\ gw = NoCall
    /\ hist = NoHist
    /\ perms = CreatedPerms(vcOwner)
    /\ worker = IdleWorker
    /\ calc = NoCalc

NextStoreErr ==
    \/ NextDeadline
    \/ \E c \in {DeadlineRoom, None} : UserMove("u3", c)
    \/ XferStore
    \/ StoreWriteErr
    \/ SwStoreErr

SpecStoreErr == InitStoreErr /\ [][NextStoreErr]_vars

\* ---- startup: cleanup_orphaned_channels ------------------------------------
\* The framework runs its setup before it hands any event to the handlers;
\* the reconciliation is the first thing the setup awaits, so nothing else
\* reads or writes the store or the cache while it runs.

\* a plausible slip: the row of a channel that get_channel does not find is kept
CocGetChannelKeepsRow ==
    \E t \in At("coc_get") : \E r \in t.s :
        /\ IF pexists[r] = "live"
           THEN cacheOwner' = [cacheOwner EXCEPT ![r] = vcOwner[r]]
           ELSE cacheOwner' = cacheOwner
        /\ tasks' = Replace(t, IF t.s = {r} THEN {} ELSE {[t EXCEPT !.s = @ \ {r}]})
        /\ gw' = NoCall
        /\ UNCHANGED <<platformVars, storeVars, marker, spamVars, cfg, worker, perms, calc, hist, budget, sweep>>

\* the loop over the rows, one get_channel each: Ok restores the cache
\* entry from the row and goes on with the next row or returns; Err (the
\* channel is gone, or the request failed for any other reason) leads to
\* voice_channel::delete.  list_all orders the rows by created_at, which
\* the model does not keep: the rows are visited in any order.
CocGetChannel ==
    \E t \in At("coc_get") : \E r \in t.s :
        /\ \/ /\ pexists[r] = "live"
              /\ cacheOwner' = [cacheOwner EXCEPT ![r] = vcOwner[r]]
              /\ tasks' = Replace(t, IF t.s = {r} THEN {} ELSE {[t EXCEPT !.s = @ \ {r}]})
           \/ /\ cacheOwner' = cacheOwner
              /\ tasks' = Replace(t, {[t EXCEPT !.pc = "coc_delete", !.c = r, !.s = @ \ {r}]})
        /\ gw' = NoCall
        /\ UNCHANGED <<platformVars, storeVars, marker, spamVars, cfg, worker, perms, calc, hist, budget, sweep>>

\* voice_channel::list_all; its error ends the reconciliation, the setup logs it
CocList ==
    \E t \in At("coc_list") :
        /\ \/ /\ tasks' = Replace(t, IF \E r \in Rooms : IsManaged(r)
                                     THEN {[t EXCEPT !.pc = "coc_get", !.s = {r \in Rooms : IsManaged(r)}]}
                                     ELSE {})
              /\ gw' = NoCall
           \/ /\ tasks' = Replace(t, {})
              /\ gw' = Call("store_failed", None, None, "cleanup_orphaned_channels")
        /\ UNCHANGED <<platformVars, storeVars, cacheOwner, marker, spamVars, cfg, worker, perms, calc, hist, budget, sweep>>

\* voice_channel::delete of the row whose channel was not found, then the
\* next row or the return; its error ends the reconciliation
CocDelete ==
    \E t \in At("coc_delete") :
        /\ \/ /\ vcOwner' = [vcOwner EXCEPT ![t.c] = None]
              /\ vcTopic' = [vcTopic EXCEPT ![t.c] = None]
              /\ vcTags' = [vcTags EXCEPT ![t.c] = {}]
              /\ tasks' = Replace(t, IF t.s = {} THEN {} ELSE {[t EXCEPT !.pc = "coc_get", !.c = None]})
              /\ gw' = NoCall
           \/ /\ UNCHANGED roomStore
              /\ tasks' = Replace(t, {})
              /\ gw' = Call("store_failed", None, t.c, "cleanup_orphaned_channels")
        /\ UNCHANGED <<platformVars, muteStore, miscStore, cacheOwner, marker, spamVars, cfg, worker, perms, calc, hist, budget, sweep>>

\* a new process: the cache is empty; the store holds the rows the previous
\* process left, each for a channel that still exists or is gone (an id
\* without a row was never allocated); nobody is connected
InitStartup ==
    /\ chan = [m \in Members |-> None]
    /\ pmute = [m \in Members |-> FALSE]
    /\ vcOwner \in [Rooms -> {None, "u1", "u2"}]
    /\ pexists \in [Rooms -> {"free", "live", "gone"}]
    /\ \A r \in Rooms : pexists[r] = "free" <=> vcOwner[r] = None
    /\ vcTopic \in [Rooms -> {None, "a"}]
    /\ \A r \in Rooms : vcOwner[r] = None => vcTopic[r] = None
    /\ vcTags = [r \in Rooms |-> {}]
    /\ mutes = EmptyBag
    /\ gmute = [m \in Members |-> FALSE]
    /\ deadline = [r \in Rooms |-> NoTime]
    /\ prefs = [m \in Members |-> NoPref]
    /\ spamLevel = [m \in Members |-> 0]
    /\ cacheOwner = [r \in Rooms |-> None]
    /\ marker = [m \in Members |-> NoTime]
    /\ activity = [c \in Rooms |-> [u \in Members |-> <<>>]]
    /\ prompted = [c \in Rooms |-> [u \in Members |-> NoTime]]
    /\ cfg = DefaultSettings
    /\ tasks = {Task("st", None, None, None, "coc_list", None, 0)}
    /\ sweep = IdleSweep(NoTime)
    /\ budget = 0
    /\ gw = NoCall
    /\ hist = NoHist
    /\ perms = CreatedPerms(vcOwner)
    /\ worker = IdleWorker
    /\ calc = NoCalc

NextStartup ==
    \/ CocList
    \/ CocGetChannel
    \/ CocDelete

SpecStartup == InitStartup /\ [][NextStartup]_vars

\* ---- claims on the mute reconciler --------------------------------------
\* C1: in every reachable state each (room, user) pair has at most one
\* mute record with unmuted_at unset.
C1_AtMostOneActiveRecord ==
    \A c \in Rooms, u \in Members : ActiveCount(c, u) <= 1

\* C2: the delayed-unmute task issues its platform unmute only for a user
\* without an active global mute record at that moment.
C2_DelayedUnmuteRespectsGlobalMute ==
    (gw.op = "unmute" /\ gw.by = "delayed_unmute") => ~IsGloballyMuted(gw.u)

\* C3: unmute_user clears the platform mute flag only for a user without an
\* active global mute record.
C3_UnmuteUserRespectsGlobalMute ==
    (gw.op = "unmute" /\ gw.by = "unmute_user") => ~IsGloballyMuted(gw.u)

\* the delayed-unmute task of a user who left room t.o, is now in another
\* managed room where they hold an active mute record, and, if the task has
\* read the current channel already, was there when it read it
HoppedToMutedRoom(t) ==
    /\ t.k = "du"
    /\ t.t = 0
    /\ t.pc \in {"du_global", "du_active"}
    /\ chan[t.u] \in Rooms \ {t.o}
    /\ IsManaged(chan[t.u])
    /\ HasActiveMute(chan[t.u], t.u)
    /\ t.pc = "du_active" => t.x = chan[t.u]

JoinPcs == {"join_get", "sp_increment", "sp_timeout", "sp_prompt", "join_active", "join_remute"}

\* the join handler of a user who holds an active mute record for the
\* managed room joined
JoinOfMuted(t) ==
    /\ t.k = "vs"
    /\ t.pc \in JoinPcs
    /\ t.c \in Rooms
    /\ IsManaged(t.c)
    /\ HasActiveMute(t.c, t.u)

\* C5: the join handler of a user who holds an active mute record for the
\* managed room joined issues the platform mute for that user before it
\* completes: the step that ends handle_channel_join is the mute call.
C5_JoinReappliesMute ==
    [][\A t \in tasks :
          (/\ JoinOfMuted(t)
           /\ t \notin tasks'
           /\ ~\E n \in tasks' : n.k = "vs" /\ n.u = t.u /\ n.o = t.o /\ n.c = t.c /\ n.pc \in JoinPcs)
          => gw' = Call("mute", t.u, t.c, "handle_channel_join")]_vars

\* ---- claims on the room's life ------------------------------------------
\* the user is platform-muted, holds an active non-admin mute record of a
\* room and is not in that room
LeftMuted(u) ==
    /\ pmute[u]
    /\ \E r \in Rooms : HasActiveMute(r, u) /\ ~ActiveMuteIsAdmin(r, u) /\ chan[u] # r

InRoomMutedThere(u) == chan[u] \in Rooms /\ HasActiveMute(chan[u], u)

\* C6: a user who is platform-muted through a non-admin mute record of a
\* room and has left that room is eventually platform-unmuted, unless they
\* hold an active global mute record or are in a room where they hold an
\* active mute record.
C6_LeaverEventuallyUnmuted ==
    \A u \in Humans : LeftMuted(u) ~> (~pmute[u] \/ IsGloballyMuted(u) \/ InRoomMutedThere(u))

\* the task makes a step: it is gone or has changed in more than its clocks
Steps(t) == t \in tasks /\ ~\E n \in tasks' : [n EXCEPT !.t = t.t, !.lag = t.lag] = t

\* C7: handle_owner_leave with at least 2 members and a non-bot member in
\* the room goes on to transfer the room to a non-bot member, and the
\* transfer sets the store owner and the cache entry to that member and does
\* not delete the room; with fewer than 2 members it goes on to delete the
\* room, and the deletion removes the store row and the cache entry and
\* issues the platform delete.
C7_OwnerLeaveTransfersOrDeletes ==
    [][\A t \in tasks : Steps(t) =>
          /\ (t.pc = "leave_get" /\ IsManaged(t.o) /\ vcOwner[t.o] = t.u
                /\ MemberCount(t.o) >= 2 /\ \E m \in Humans : chan[m] = t.o)
             => \E n \in tasks' : n.pc = "xfer_store" /\ n.u = t.u /\ n.o = t.o
                                    /\ n.x \in Humans /\ chan[n.x] = t.o
          /\ (t.pc = "leave_get" /\ IsManaged(t.o) /\ vcOwner[t.o] = t.u /\ MemberCount(t.o) < 2)
             => \E n \in tasks' : n.pc = "del_store" /\ n.u = t.u /\ n.o = t.o
          /\ t.pc = "xfer_store"
             => vcOwner'[t.o] = t.x /\ cacheOwner'[t.o] = t.x /\ pexists'[t.o] = pexists[t.o]
          /\ t.pc = "del_store"
             => vcOwner'[t.o] = None /\ cacheOwner'[t.o] = None
          /\ t.pc = "del_platform"
             => gw' = Call("delete", t.u, t.o, "delete_channel") /\ pexists'[t.o] # "live"]_vars

\* C8: when handle_owner_leave completes, the room has no store row or its
\* recorded owner is a non-bot user who is in the room and is not the
\* departing owner.
C8_OwnerPresentAfterOwnerLeave ==
    [][\A t \in tasks : (Steps(t) /\ t.pc \in {"xfer_store", "del_platform"}) =>
          \/ vcOwner'[t.o] = None
          \/ /\ vcOwner'[t.o] \in Humans
             /\ chan'[vcOwner'[t.o]] = t.o
             /\ vcOwner'[t.o] # t.u]_vars

RoomDeleted(r) == vcOwner[r] = None /\ cacheOwner[r] = None /\ pexists[r] # "live"

\* C9: a managed room without members is eventually deleted (store row and
\* cache entry removed, platform channel deleted), unless somebody joins it
\* again.
C9_EmptyRoomEventuallyDeleted ==
    \A r \in Rooms : (IsManaged(r) /\ MemberCount(r) = 0) ~> (RoomDeleted(r) \/ MemberCount(r) > 0)

\* ---- claims on the naming deadline --------------------------------------
\* the room has a store row without a topic and its deadline has passed
UnnamedExpired(r) == IsManaged(r) /\ vcTopic[r] = None /\ deadline[r] = 0

\* the room has been named or its deadline has been extended
NamedOrExtended(r) == vcTopic[r] # None \/ deadline[r] > 0

\* C10: an unnamed room whose deadline has passed is eventually deleted: its
\* store row is removed, its cache entry is removed, its deadline row is
\* removed and its platform channel is deleted, unless it is named or its
\* deadline is extended in the meantime.
C10_UnnamedRoomEventuallyDeleted ==
    \A r \in Rooms :
        /\ UnnamedExpired(r) ~> (vcOwner[r] = None \/ NamedOrExtended(r))
        /\ UnnamedExpired(r) ~> (cacheOwner[r] = None \/ NamedOrExtended(r))
        /\ UnnamedExpired(r) ~> (deadline[r] = NoTime \/ NamedOrExtended(r))
        /\ UnnamedExpired(r) ~> (pexists[r] = "gone" \/ NamedOrExtended(r))

\* C10 witness: the checker has deleted the platform channel of an unnamed
\* room whose deadline has passed and is about to delete its store row.
C10_Witness ==
    /\ sweep.pc = "sw_store"
    /\ UnnamedExpired(sweep.cur)
    /\ pexists[sweep.cur] = "gone"
    /\ gw = Call("delete", None, sweep.cur, "check_expired_deadlines")

\* ---- claims on naming and the deadline ----------------------------------
\* the deadline checker deletes the room it is working on
SweepDeleteStep == sweep.pc = "sw_platform" /\ sweep'.pc = "sw_store"

\* C11: a room whose naming completed (name stored, PendingDeadline
\* removed) before its deadline is never deleted by the deadline checker.
C11_NamedInTimeNeverSwept ==
    [][SweepDeleteStep => sweep.cur \notin hist.named]_vars

\* ---- claims on the saved preference --------------------------------------
\* C12: a creation flow that finds a saved preference of the user passes
\* exactly the saved name and tags to create_channel, the room's store row
\* gets that name and those tags, and the flow records no PendingDeadline
\* and sends no naming prompt.
C12_SavedPreferenceApplied ==
    [][\A t \in tasks : Steps(t) =>
          /\ (t.pc = "jtc_pref" /\ prefs[t.u] # NoPref) =>
                 \E n \in tasks' : /\ n.pc = "cc_platform" /\ n.u = t.u
                                   /\ n.x = prefs[t.u].name /\ n.s = prefs[t.u].tags
          /\ (t.pc = "cc_platform" /\ t.x # None) =>
                 \E n \in tasks' : n.pc = "cc_store" /\ n.u = t.u /\ n.x = t.x /\ n.s = t.s
          /\ (t.pc = "cc_store" /\ t.x # None) =>
                 /\ vcTopic'[t.c] = t.x
                 /\ vcTags'[t.c] = t.s
                 /\ \E n \in tasks' : n.pc = "cc_move" /\ n.u = t.u /\ n.c = t.c /\ n.x = t.x
          /\ (t.pc = "cc_move" /\ t.x # None) =>
                 /\ deadline' = deadline
                 /\ gw'.op # "naming_prompt"
                 /\ ~\E n \in tasks' : n.pc = "jtc_deadline" /\ n.u = t.u /\ n.c = t.c]_vars

\* C12 witness: the user named a first room "b" and picked a tag there; the
\* first room is gone and the flow for the next one has stored its row, with
\* that name and that tag, and is about to move the user.
C12_Witness ==
    \E t \in tasks :
        /\ t.pc = "cc_move"
        /\ prefs[t.u] = [name |-> "b", tags |-> {"t"}]
        /\ vcTopic[t.c] = "b"
        /\ vcTags[t.c] = {"t"}
        /\ deadline[t.c] = NoTime
        /\ \E r \in Rooms \ {t.c} : pexists[r] = "gone"

\* ---- claims on the activity detector -------------------------------------
\* the member had a spam timeout within the last window
TimedOutInWindow(v) == hist.timeout[v] # NoTime /\ hist.timeout[v] <= cfg.window

\* C13: a user whose events within the window reach the timeout threshold
\* receives exactly one timeout, at level min(previous level + 1, 7), and no
\* prompt about that user is sent after it: the level goes up by one and is
\* capped, and no timeout and no prompt about a user follows a timeout of
\* that user within the window.
C13_OneTimeoutPerWindow ==
    [][\A t \in tasks : Steps(t) =>
          /\ t.pc = "sp_increment" =>
                 spamLevel'[t.x] = IF spamLevel[t.x] + 1 > 7 THEN 7 ELSE spamLevel[t.x] + 1
          /\ (t.pc = "sp_timeout" /\ gw'.op = "timeout") => ~TimedOutInWindow(t.x)
          /\ (t.pc = "sp_prompt" /\ gw'.op = "prompt") => ~TimedOutInWindow(t.x)]_vars

\* ---- claims on the ownership cache ---------------------------------------
\* C14: whenever no handler, command or checker round is in progress, the
\* ownership cache has an entry for exactly the rooms that have a store row,
\* and the cached owner is the stored owner.
C14_CacheAgreesWhenIdle ==
    (tasks = {} /\ sweep.pc = "idle") => \A r \in Rooms : cacheOwner[r] = vcOwner[r]

\* the awaits of start_jtc_flow and of the create_channel it calls
CreationPcs == {"jtc_pref", "cc_platform", "cc_store", "cc_move", "jtc_deadline"}

\* C15: at most one room creation (start_jtc_flow with its create_channel)
\* is in progress at any time, the creations for the users who join the
\* trigger channel being queued and run one by one by the queue processor
C15_OneCreationAtATime == Cardinality({t \in tasks : t.pc \in CreationPcs}) <= 1

\* the queue processor takes the request at the head of its channel
TakesRequest == worker.pc = "recv" /\ worker.queue # <<>> /\ worker'.queue = Tail(worker.queue)

\* C16: the queue processor calls start_jtc_flow for the request it takes
\* exactly when the user is in the request's trigger channel at that
\* moment; otherwise the request is dropped, no flow is started and no
\* platform room, store row, cache entry or deadline is made
C16_WorkerRechecksMembership ==
    [][TakesRequest =>
         LET e == Head(worker.queue)
         IN IF chan[e.u] = e.c
            THEN /\ worker'.pc = "flow"
                 /\ \E n \in tasks' \ tasks : n.k = "qw" /\ n.u = e.u /\ n.pc = "jtc_pref"
            ELSE /\ worker'.pc = "recv"
                 /\ tasks' = tasks
                 /\ pexists' = pexists
                 /\ vcOwner' = vcOwner
                 /\ cacheOwner' = cacheOwner
                 /\ deadline' = deadline]_vars

\* one request was dropped, another led to a room, and the user of the
\* dropped one owns nothing
C16_Witness ==
    /\ \E u \in hist.dropped : \A r \in Rooms : vcOwner[r] # u
    /\ \E r \in Rooms : vcOwner[r] # None /\ vcOwner[r] \notin hist.dropped
    /\ worker.queue = <<>>

\* C17: the queue processor sleeps the fixed delay after every
\* start_jtc_flow it has awaited, whether that returned Ok or an error, so
\* it has slept between any two calls of start_jtc_flow it makes
C17_DelayBetweenWorkerFlows ==
    [][/\ (worker.pc = "recv" /\ worker'.pc = "flow") => (hist.flows = 0 \/ hist.slept)
       /\ (worker.pc = "flow" /\ worker'.pc # "flow") =>
             (worker'.pc = "sleep" /\ worker'.timer = RATE_LIMIT_DELAY_SECONDS)
       /\ (worker.pc = "sleep" /\ worker'.pc # "sleep") => worker.timer = 0]_vars

\* the queue processor sleeps after its second flow, both have made a room
C17_Witness ==
    /\ hist.flows = 2
    /\ worker.pc = "sleep"
    /\ \A r \in Rooms : vcOwner[r] \in {"u1", "u2"}

\* C18: create_channel, and with it start_jtc_flow, ends with
\* JtcNotConfigured when the guild has no configuration row or the row has
\* no category for the kind of room; nothing is created then: no platform
\* room, no store row, no cache entry, no deadline, and the flow does not go on
C18_NotConfiguredCreatesNothing ==
    [][\A t \in tasks : (Steps(t) /\ t.pc = "cc_platform" /\ (~cfg.configured \/ ~cfg.category)) =>
          /\ t.u \in hist'.errors
          /\ pexists' = pexists
          /\ perms' = perms
          /\ <<vcOwner', vcTopic', vcTags'>> = <<vcOwner, vcTopic, vcTags>>
          /\ cacheOwner' = cacheOwner
          /\ deadline' = deadline
          /\ tasks' = tasks \ {t}]_vars

\* the flows of two users have failed, one of them run by the queue
\* processor, and nothing exists
C18_Witness ==
    /\ Cardinality(hist.errors) >= 2
    /\ hist.flows >= 1
    /\ \A r \in Rooms : pexists[r] = "free" /\ vcOwner[r] = None /\ cacheOwner[r] = None /\ deadline[r] = NoTime

\* C19: in every reachable state, an overwrite the bot has made for a
\* room's owner, at creation or at a transfer (owner leave, /transfer,
\* transfer menu), allows muting members and nothing else, never channel
\* management
C19_OwnerOverwriteMuteOnly ==
    \A r \in Rooms, m \in Members : perms[r][m] \subseteq {"MUTE_MEMBERS"}

\* C20: get_timeout_duration(level) is, for every level from 0 on, the entry
\* of the table 15 minutes, 1 hour, 6 hours, 24 hours, 3 days, 7 days,
\* 14 days, 14 days at index min(level, 7), and it does not decrease when
\* the level grows
C20_TimeoutTableClamped ==
    LET table == <<900, 3600, 21600, 86400, 259200, 604800, 1209600, 1209600>>
        entry(level) == table[(IF level < 7 THEN level ELSE 7) + 1]
    IN calc.ra # NoTime =>
         /\ calc.ra = entry(calc.a)
         /\ calc.rb = entry(calc.b)
         /\ calc.a <= calc.b => calc.ra <= calc.rb

\* a level past the table got the last entry, and a lower level less
C20_Witness ==
    /\ calc.a = MaxLevel
    /\ calc.ra = 14 * 24 * 60 * 60
    /\ calc.b = 4
    /\ calc.rb = 3 * 24 * 60 * 60

\* ---- claims on notifications and on the mute events ----------------------
\* C21: a notification that cannot be sent does not end the operation that
\* sends it: after a failed spam prompt the join handler goes on with
\* check_spam and with get_active_mute, so that the re-mute of a joining
\* user who holds an active mute record is not lost
C21_FailedPromptDoesNotEndJoin ==
    [][\A t \in tasks :
          (Steps(t) /\ t.pc = "sp_prompt" /\ gw' = Call("prompt_failed", t.x, t.c, "check_spam"))
          => \E n \in tasks' : n.k = t.k /\ n.u = t.u /\ n.o = t.o /\ n.c = t.c /\ n.pc \in JoinPcs]_vars

\* C22: the handling of a voice-state event in which the user's channel
\* changes (a join, a leave, a move), the delayed unmute it spawns
\* included, creates and closes no mute record and no global mute record
\* and does not consume the pending-unmute marker, whatever the mute flags
\* of the old and the new state are
C22_RoomChangeTouchesNoMuteState ==
    [][\A t \in tasks :
          (Steps(t) /\ ((t.k = "vs" /\ t.o # t.c) \/ t.k = "du"))
          => /\ mutes' = mutes
             /\ gmute' = gmute
             /\ marker[t.u] # NoTime => marker'[t.u] # NoTime]_vars

\* a user who is server-muted since their time in r1 has connected to r2,
\* where they hold no record (old flag false, new flag true), and the join
\* handler has come to get_active_mute; nothing else runs but delayed unmutes
C22_Witness ==
    \E t \in tasks :
        /\ t.k = "vs" /\ t.o = None /\ t.c = "r2" /\ t.pc = "join_active"
        /\ \A n \in tasks \ {t} : n.k = "du"
        /\ pmute[t.u]
        /\ HasActiveMute("r1", t.u)
        /\ ~HasActiveMute("r2", t.u)
        /\ ~gmute[t.u]

\* C23: the handler of an unmuted-to-muted event with an unchanged channel
\* creates, for a managed room in which the user holds no active record,
\* exactly one mute record, with is_admin_mute false and muted_by the owner
\* it read from the room's row, and touches no global mute; for a channel
\* that is not managed it makes the user's global mute active (one per
\* user) and creates no mute record
C23_MuteEventRecorded ==
    [][\A t \in tasks : Steps(t) =>
          /\ t.pc = "md_get" =>
                /\ mutes' = mutes /\ gmute' = gmute
                /\ \E n \in tasks' : /\ n.k = t.k /\ n.u = t.u /\ n.c = t.c
                                     /\ IF IsManaged(t.c)
                                        THEN n.pc = "md_active" /\ n.x = vcOwner[t.c]
                                        ELSE n.pc = "md_global"
          /\ t.pc = "md_active" =>
                /\ mutes' = mutes /\ gmute' = gmute
                /\ IF HasActiveMute(t.c, t.u)
                   THEN Cardinality(tasks') < Cardinality(tasks)
                   ELSE \E n \in tasks' : n.k = t.k /\ n.u = t.u /\ n.c = t.c /\ n.pc = "md_create" /\ n.x = t.x
          /\ t.pc = "md_create" =>
                /\ BagCardinality(mutes') = BagCardinality(mutes) + 1
                /\ CopiesIn(MuteRow(t.c, t.u, t.x, FALSE), mutes') = CopiesIn(MuteRow(t.c, t.u, t.x, FALSE), mutes) + 1
                /\ gmute' = gmute
          /\ t.pc = "md_global" =>
                /\ gmute' = [gmute EXCEPT ![t.u] = TRUE]
                /\ mutes' = mutes]_vars

\* two events after the start (a join and a mute by hand), the user is in
\* r1 with one record there, made out to the owner, and nothing runs
C23_Witness ==
    /\ budget = MaxMuteEvents - 2
    /\ tasks = {}
    /\ chan[MuteTarget] = "r1" /\ pmute[MuteTarget]
    /\ mutes = SetToBag({MuteRow("r1", MuteTarget, vcOwner["r1"], FALSE)})
    /\ ~gmute[MuteTarget]

\* C24: the handler of a muted-to-unmuted event with an unchanged channel
\* that found no valid marker closes every active mute record of (the
\* event's channel, the user), then the user's active global mute, and
\* leaves the records of other channels and of other users as they are
C24_ManualUnmuteClosesRecords ==
    [][\A t \in tasks : Steps(t) =>
          /\ (t.pc = "ud_consume" /\ ~MarkerValid(t.u)) =>
                /\ mutes' = mutes /\ gmute' = gmute
                /\ \E n \in tasks' : n.k = t.k /\ n.u = t.u /\ n.c = t.c /\ n.pc = "ud_unmute"
          /\ t.pc = "ud_unmute" =>
                /\ \A m \in BagToSet(mutes') : ~(m.channel_id = t.c /\ m.muted_user_id = t.u)
                /\ \A m \in BagToSet(mutes) \cup BagToSet(mutes') :
                      ~(m.channel_id = t.c /\ m.muted_user_id = t.u) => CopiesIn(m, mutes') = CopiesIn(m, mutes)
                /\ gmute' = gmute
                /\ \E n \in tasks' : n.k = t.k /\ n.u = t.u /\ n.c = t.c /\ n.pc = "ud_global"
          /\ t.pc = "ud_global" =>
                /\ gmute' = [gmute EXCEPT ![t.u] = FALSE]
                /\ mutes' = mutes]_vars

\* the handler of an unmute by hand in r1 has closed the user's record of
\* r1 and is about to close the global mute, while the user's record of r2
\* stands
C24_Witness ==
    \E t \in tasks :
        /\ t.pc = "ud_global" /\ t.c = "r1"
        /\ chan[t.u] = "r1" /\ ~pmute[t.u]
        /\ ~HasActiveMute("r1", t.u)
        /\ HasActiveMute("r2", t.u)

\* C25: the handler of a muted-to-unmuted event with an unchanged channel
\* removes the user's marker; a marker younger than five seconds ends that
\* handler with no record changed, an older or absent one lets it go on to
\* close the records; and nothing else removes a marker, so a marker
\* suppresses the one next such event of its user and no later one
C25_MarkerSuppressesNextUnmuteOnly ==
    [][/\ \A t \in tasks : (Steps(t) /\ t.pc = "ud_consume") =>
             /\ marker' = [marker EXCEPT ![t.u] = NoTime]
             /\ mutes' = mutes /\ gmute' = gmute
             /\ IF marker[t.u] # NoTime /\ marker[t.u] < PENDING_UNMUTE_VALID_SECONDS
                THEN Cardinality(tasks') < Cardinality(tasks)
                ELSE \E n \in tasks' : n.k = t.k /\ n.u = t.u /\ n.c = t.c /\ n.pc = "ud_unmute"
       /\ \A u \in Members : (marker[u] # NoTime /\ marker'[u] = NoTime) =>
             \E t \in tasks : Steps(t) /\ t.pc = "ud_consume" /\ t.u = u]_vars

\* the handler of an unmute by hand is about to consume a marker that a
\* delayed unmute left five seconds ago, while the user's record stands
C25_Witness ==
    \E t \in tasks :
        /\ t.pc = "ud_consume"
        /\ marker[t.u] = PENDING_UNMUTE_VALID_SECONDS
        /\ HasActiveMute(t.c, t.u)

\* C26: no step of the delayed-unmute task changes a mute record or a
\* global mute; the step that takes the task to apply_server_mute(false)
\* sets the user's marker, and only a task that was taken there issues the
\* delayed unmute
C26_DelayedUnmuteMarksAndKeepsRecord ==
    [][/\ \A t \in tasks : (Steps(t) /\ t.k = "du") =>
             /\ mutes' = mutes /\ gmute' = gmute
             /\ t.pc # "du_unmute" =>
                   \A n \in tasks' :
                       (/\ n.k = "du" /\ n.u = t.u /\ n.pc = "du_unmute"
                        /\ ~\E m \in tasks : [m EXCEPT !.t = n.t, !.lag = n.lag] = n)
                       => marker'[t.u] = 0
       /\ gw'.by = "delayed_unmute" =>
             \E t \in tasks : Steps(t) /\ t.k = "du" /\ t.pc = "du_unmute" /\ gw'.u = t.u /\ ~pmute'[t.u]]_vars

\* the delayed unmute has just unmuted a user who left r1 and is now in r2: the
\* marker is fresh, the event of the unmute waits for its handler and the
\* record of r1 stands
C26_Witness ==
    /\ gw = Call("unmute", MuteTarget, "r1", "delayed_unmute")
    /\ chan[MuteTarget] = "r2" /\ ~pmute[MuteTarget]
    /\ marker[MuteTarget] = 0
    /\ HasActiveMute("r1", MuteTarget)
    /\ \E t \in tasks : t.u = MuteTarget /\ t.pc = "ud_consume" /\ t.c = "r2"

\* C27: once a user's mute was lifted by hand or by /unmute while the
\* delayed unmute was asleep, no later unmute of that user by hand meets a
\* valid marker that no other unmute event is there to consume (its handler
\* would be the one to consume the marker and would ignore the unmute)
C27_LateDelayedUnmuteHarmless ==
    [][\A u \in hist.lifted :
          (budget' # budget /\ pmute[u] /\ ~pmute'[u])
          => ~(/\ MarkerValid(u)
               /\ ~\E t \in tasks : t.u = u /\ t.pc = "ud_consume")]_vars

\* ---- claims on the cache, the deadline checker and the naming deadline ----
\* C28: create_channel, transfer_ownership, delete_channel and the deadline
\* deletion change a room's cache entry only in the step in which their
\* store write for that room has taken effect (the entry then agrees with
\* the row); a store write that fails leaves cache and store as they were,
\* and after a failed voice_channel::create the platform room stands with
\* no row and no cache entry
C28_CacheAfterStoreWrite ==
    [][/\ gw'.op = "store_failed" =>
             /\ cacheOwner' = cacheOwner /\ vcOwner' = vcOwner
             /\ gw'.by = "cc_store" =>
                   /\ pexists'[gw'.c] = "live"
                   /\ vcOwner'[gw'.c] = None /\ cacheOwner'[gw'.c] = None
       /\ \A r \in Rooms :
             (/\ cacheOwner'[r] # cacheOwner[r]
              /\ \/ \E t \in tasks : /\ Steps(t)
                                     /\ \/ t.pc = "cc_store" /\ t.c = r
                                        \/ t.pc \in {"del_store", "xfer_store"} /\ t.o = r
                 \/ sweep.pc = "sw_store" /\ sweep'.pc # "sw_store" /\ sweep.cur = r)
             => /\ gw'.op # "store_failed"
                /\ cacheOwner'[r] = vcOwner'[r]]_vars

\* C29: the deadline checker leaves the row it is working on only by
\* removing that room's deadline, it leaves out none of the rows it took
\* up, and it deletes a room only while the room has a store row without a
\* name
C29_SweepRemovesRowsDeletesUnnamed ==
    [][/\ (sweep.cur # None /\ sweep'.cur # sweep.cur) =>
             /\ deadline'[sweep.cur] = NoTime
             /\ sweep'.rows \cup ({sweep'.cur} \ {None}) = sweep.rows
       /\ SweepDeleteStep => (IsManaged(sweep.cur) /\ vcTopic[sweep.cur] = None)]_vars

C31_DeadlineOnlyForUnnamedRoom ==
    (tasks = {} /\ sweep.pc = "idle") =>
        \A r \in Rooms : deadline[r] # NoTime => (IsManaged(r) /\ vcTopic[r] = None)

\* C32: a stored timeout level goes up or is reset to 0, and the first
\* escalation of a record whose last infraction is 30 days old or older is
\* computed from level 0, so it leaves the record at level 1
C32_LevelResetAfterThirtyDays ==
    [][\A m \in Members :
          /\ spamLevel'[m] >= spamLevel[m] \/ spamLevel'[m] = 0
          /\ (m \in hist.stale /\ spamLevel'[m] # spamLevel[m]) => spamLevel'[m] = 1]_vars

\* C33: a prompt about a user of a room is sent only when no prompt about
\* that user of that room was sent within the last 5 minutes, and check_spam
\* decides to send one only for a count from the prompt threshold up to,
\* not including, the timeout threshold
C33_OnePromptPerFiveMinutes ==
    [][/\ \A t \in tasks : (Steps(t) /\ t.pc = "sp_prompt" /\ gw'.op = "prompt") =>
               ~WasRecentlyPrompted(t.c, t.x)
       /\ \A n \in tasks' : (n.pc = "sp_prompt" /\ ~\E m \in tasks : [m EXCEPT !.t = n.t, !.lag = n.lag] = n) =>
               /\ GetActivityCount(activity', n.c, n.x, cfg.window) >= cfg.prompt_threshold
               /\ GetActivityCount(activity', n.c, n.x, cfg.window) < cfg.timeout_threshold]_vars

\* C34: every queue of the tracker is in the order of its timestamps (the
\* oldest event first); a step leaves a queue as it is, lets its events age
\* without removing any, or is a record_join / record_leave that removes
\* from the front only events older than the window and pushes the new
\* event, so that the count of the pair goes up by exactly one; the count is
\* the number of events in the queue that are not older than the window
C34_CountIsEventsWithinWindow ==
    [][\A c \in Rooms, u \in Members :
          LET q == activity[c][u]
              n == activity'[c][u]
          IN /\ \A i \in 1..(Len(n) - 1) : n[i] >= n[i + 1]
             /\ \/ n = q
                \/ Len(n) = Len(q) /\ \A i \in 1..Len(q) : n[i] = Inc(q[i], cfg.window + 1)
                \/ /\ \E k \in 0..Len(q) :
                          /\ n = SubSeq(q, k + 1, Len(q)) \o <<0>>
                          /\ \A i \in 1..k : q[i] > cfg.window
                   /\ GetActivityCount(activity', c, u, cfg.window)
                          = GetActivityCount(activity, c, u, cfg.window) + 1]_vars

\* u1 has joined r1 and left it, both handlers have ended, and the queue
\* holds the event of the second only: the first was older than the window
\* and record_event removed it
C34_Witness ==
    /\ tasks = {}
    /\ chan["u1"] = None
    /\ budget = MaxSpamEvents - 2
    /\ activity["r1"]["u1"] = <<0>>

\* C35: the activity tracker holds no event queue and no prompted mark for
\* a room that has been deleted (no channel on the platform, no store row)
C35_TrackerForgetsDeletedRoom ==
    \A r \in Rooms : (pexists[r] = "gone" /\ ~IsManaged(r)) =>
        \A u \in Members : activity[r][u] = <<>> /\ prompted[r][u] = NoTime

\* C36: once cleanup_orphaned_channels has returned without an error, every
\* row of the store is the row of a channel that exists and whose cache
\* entry is the owner of the row, no row is left for a channel that is
\* gone, and no step of the reconciliation deletes a channel
C36_StartupReconciles ==
    /\ [](tasks = {} /\ gw.op # "store_failed" =>
             \A r \in Rooms :
                 /\ IsManaged(r) => (pexists[r] = "live" /\ cacheOwner[r] = vcOwner[r])
                 /\ pexists[r] = "gone" => ~IsManaged(r))
    /\ [][pexists' = pexists]_vars

\* the reconciliation has returned without an error, having restored the
\* cache entry of one room and deleted the row of the other, whose channel
\* is gone
C36_Witness ==
    /\ tasks = {}
    /\ gw.op # "store_failed"
    /\ \E r \in Rooms : IsManaged(r) /\ cacheOwner[r] = vcOwner[r]
    /\ \E r \in Rooms : pexists[r] = "gone" /\ ~IsManaged(r)

\* C37: when the transfer of handle_owner_leave completes, the store row
\* and the cache entry of the room name the new owner, the new owner's
\* overwrite on the room allows muting members and the departed owner's
\* does not
C37_OwnerLeaveTransferMovesOverwrite ==
    [][\A t \in tasks : (Steps(t) /\ t.pc = "xfer_store" /\ gw'.op # "store_failed") =>
          /\ vcOwner'[t.o] = t.x
          /\ cacheOwner'[t.o] = t.x
          /\ "MUTE_MEMBERS" \in perms'[t.o][t.x]
          /\ "MUTE_MEMBERS" \notin perms'[t.o][t.u]]_vars

\* C38: every request that is in the queue is taken out of it at some time,
\* whether the flows succeed or fail; a request is put at the back and
\* taken from the front only, and the request that is taken is dropped or
\* start_jtc_flow is started for its user
C38_EveryRequestDequeued ==
    /\ \A u \in Humans :
           (\E i \in 1..Len(worker.queue) : worker.queue[i].u = u)
               ~> ~(\E i \in 1..Len(worker.queue) : worker.queue[i].u = u)
    /\ [][worker'.queue # worker.queue =>
            \/ /\ Len(worker'.queue) > Len(worker.queue)
               /\ SubSeq(worker'.queue, 1, Len(worker.queue)) = worker.queue
            \/ /\ worker.queue # <<>>
               /\ worker'.queue = Tail(worker.queue)
               /\ \/ /\ Head(worker.queue).u \in hist'.dropped
                     /\ tasks' = tasks
                  \/ \E t \in tasks' \ tasks :
                         t.k = "qw" /\ t.u = Head(worker.queue).u /\ t.pc = "jtc_pref"]_vars

\* both requests of the startup check have been taken, the first one's
\* flow failed (the guild has no category) and the second was taken after it
C38_Witness ==
    /\ ~cfg.category
    /\ hist.flows = 2
    /\ worker.queue = <<>>
    /\ Cardinality(hist.errors) = 2

\* C39: whenever no handler and no delayed-unmute task is in progress, a
\* user who is in a managed room and holds an active mute record for that
\* room is server-muted
C39_MutedMemberStaysMuted ==
    tasks = {} =>
        \A u \in Members, r \in Rooms :
            (chan[u] = r /\ IsManaged(r) /\ HasActiveMute(r, u)) => pmute[u]

\* C40: the step in which the deadline checker's delete takes a channel off
\* the platform finds no name in the store row of that room
C40_WatchdogNeverDeletesNamedRoom ==
    [][(SweepDeleteStep /\ pexists[sweep.cur] = "live" /\ pexists'[sweep.cur] = "gone")
          => vcTopic[sweep.cur] = None]_vars

====
